---- MODULE Spec2Model ----
(***************************************************************************)
(* Execution core of the browser-automation runner: the error classifier,  *)
(* the retry executor (executeWithSmartRetry) and the execution engine     *)
(* (executeScript) with its browser session and teardown.                  *)
(*                                                                         *)
(* A raw error text is modelled by the set of classifier markers that      *)
(* occur in its lower-cased form: classifyError only ever asks whether a   *)
(* marker is a substring, so this set is all it can observe of the text.   *)
(***************************************************************************)
EXTENDS Integers, Sequences, FiniteSets, TLC

(* ------------------------------ bounds -------------------------------- *)

\* longest script handed to executeScript
MaxSteps == 3

\* largest config.actions.retryAttempts of a direct executeWithSmartRetry call
MaxBudget == 6

\* largest config.actions.retryAttempts of an executeScript run
MaxEngineBudget == 3

\* most emissions made on a Logger used on its own
MaxEmissions == 2

\* most calls of cleanup on a Logger used on its own
MaxCleanups == 1

\* most file writes of a Logger used on its own that are in flight at a time
MaxInFlight == 2

\* most words of a raw error text handed to classifyError on its own
MaxWords == 2

\* largest attempt number handed to calculateRetryDelay on its own
MaxAttemptNumber == 4

\* most recovery actions a retry strategy carries
MaxRecoveryActions == 2

(* ------------------------------ helpers ------------------------------- *)

Min(a, b) == IF a < b THEN a ELSE b

RECURSIVE Pow2(_)
Pow2(n) == IF n <= 0 THEN 1 ELSE 2 * Pow2(n - 1)

SeqsUpTo(S, n) == UNION {[1..k -> S] : k \in 0..n}

(* ------------------------- error classification ----------------------- *)

ErrorTypes ==
  {"network_error", "timeout_error", "element_not_found", "element_not_visible",
   "element_not_clickable", "navigation_error", "screenshot_error",
   "validation_error", "browser_error", "unknown_error"}

DEFAULT_RETRY_STRATEGIES ==
  [t \in ErrorTypes |->
     CASE t = "network_error"         -> [maxAttempts |-> 5, delay |-> 2000, backoff |-> "exponential"]
       [] t = "timeout_error"         -> [maxAttempts |-> 3, delay |-> 3000, backoff |-> "linear"]
       [] t = "element_not_found"     -> [maxAttempts |-> 4, delay |-> 1500, backoff |-> "fixed"]
       [] t = "element_not_visible"   -> [maxAttempts |-> 3, delay |-> 1000, backoff |-> "fixed"]
       [] t = "element_not_clickable" -> [maxAttempts |-> 3, delay |-> 1000, backoff |-> "fixed"]
       [] t = "navigation_error"      -> [maxAttempts |-> 3, delay |-> 2000, backoff |-> "exponential"]
       [] t = "screenshot_error"      -> [maxAttempts |-> 2, delay |-> 500,  backoff |-> "fixed"]
       [] t = "validation_error"      -> [maxAttempts |-> 1, delay |-> 0,    backoff |-> "fixed"]
       [] t = "browser_error"         -> [maxAttempts |-> 2, delay |-> 3000, backoff |-> "fixed"]
       [] OTHER                       -> [maxAttempts |-> 2, delay |-> 1000, backoff |-> "fixed"]]

NetworkMarkers      == {"net::", "network", "connection", "dns", "refused"}
TimeoutMarkers      == {"timeout", "timed out", "waiting for"}
NotFoundMarkers     == {"no element", "not found", "cannot find", "element not found"}
NotVisibleMarkers   == {"not visible", "hidden", "not displayed"}
NotClickableMarkers == {"not clickable", "not interactable", "element click intercepted"}
NavigationMarkers   == {"navigation", "page crashed", "page.goto"}
ScreenshotMarkers   == {"screenshot"}
ValidationMarkers   == {"validation", "invalid"}
BrowserMarkers      == {"browser", "context", "playwright"}

\* lowerError.includes(m) for some m of the group
Includes(error, group) == error \cap group # {}

\* the step's selector / url as the message templates print them
SelectorOf(step) == IF step.selector = "" THEN "unknown selector" ELSE step.selector
UrlOf(step)      == IF step.url = "" THEN "unknown URL" ELSE step.url

\* variant: every classification built from a marker group is retryable
Classified_AlwaysRetryable(t, text, arg, retryable) ==
  [type |-> t, message |-> <<text, arg>>, isRetryable |-> TRUE,
   strategy |-> DEFAULT_RETRY_STRATEGIES[t]]

Classified(t, text, arg, retryable) ==
  [type |-> t, message |-> <<text, arg>>, isRetryable |-> retryable,
   strategy |-> DEFAULT_RETRY_STRATEGIES[t]]

\* Words of a raw error text that are not lower-case already, with the markers
\* their lower-case form contains.
Lowered ==
  [t \in {"CONNECTION", "REFUSED", "Timeout", "Element not found", "Invalid", "Browser"} |->
     CASE t = "CONNECTION"        -> {"connection"}
       [] t = "REFUSED"           -> {"refused"}
       [] t = "Timeout"           -> {"timeout"}
       [] t = "Element not found" -> {"element not found", "not found"}
       [] t = "Invalid"           -> {"invalid"}
       [] OTHER                   -> {"browser"}]

\* error.toLowerCase(): what a case-sensitive search finds in the lowered text
toLowerCase(error) ==
  UNION {IF t \in DOMAIN Lowered THEN Lowered[t] ELSE {t} : t \in error}

\* variant: the markers are searched in the text as given, without lowering it
classifyError_CaseSensitive(error, step) ==
  LET lowerError == error IN
  IF Includes(lowerError, NetworkMarkers)
    THEN Classified("network_error", "Network connection issue detected", "", TRUE)
  ELSE IF Includes(lowerError, TimeoutMarkers)
    THEN Classified("timeout_error", "Operation timed out", "", TRUE)
  ELSE IF Includes(lowerError, NotFoundMarkers)
    THEN Classified("element_not_found", "Element not found: ", SelectorOf(step), TRUE)
  ELSE IF Includes(lowerError, NotVisibleMarkers)
    THEN Classified("element_not_visible", "Element not visible: ", SelectorOf(step), TRUE)
  ELSE IF Includes(lowerError, NotClickableMarkers)
    THEN Classified("element_not_clickable", "Element not clickable: ", SelectorOf(step), TRUE)
  ELSE IF Includes(lowerError, NavigationMarkers)
    THEN Classified("navigation_error", "Navigation failed: ", UrlOf(step), TRUE)
  ELSE IF Includes(lowerError, ScreenshotMarkers)
    THEN Classified("screenshot_error", "Screenshot capture failed", "", TRUE)
  ELSE IF Includes(lowerError, ValidationMarkers)
    THEN Classified("validation_error", "Script validation failed", "", FALSE)
  ELSE IF Includes(lowerError, BrowserMarkers)
    THEN Classified("browser_error", "Browser operation failed", "", TRUE)
  ELSE [type |-> "unknown_error", message |-> <<"Unknown error: ", error>>,
        isRetryable |-> TRUE, strategy |-> DEFAULT_RETRY_STRATEGIES["unknown_error"]]

\* variant: the element-not-found markers are tested before the timeout markers
classifyError_NotFoundBeforeTimeout(error, step) ==
  LET lowerError == toLowerCase(error) IN
  IF Includes(lowerError, NetworkMarkers)
    THEN Classified("network_error", "Network connection issue detected", "", TRUE)
  ELSE IF Includes(lowerError, NotFoundMarkers)
    THEN Classified("element_not_found", "Element not found: ", SelectorOf(step), TRUE)
  ELSE IF Includes(lowerError, TimeoutMarkers)
    THEN Classified("timeout_error", "Operation timed out", "", TRUE)
  ELSE IF Includes(lowerError, NotVisibleMarkers)
    THEN Classified("element_not_visible", "Element not visible: ", SelectorOf(step), TRUE)
  ELSE IF Includes(lowerError, NotClickableMarkers)
    THEN Classified("element_not_clickable", "Element not clickable: ", SelectorOf(step), TRUE)
  ELSE IF Includes(lowerError, NavigationMarkers)
    THEN Classified("navigation_error", "Navigation failed: ", UrlOf(step), TRUE)
  ELSE IF Includes(lowerError, ScreenshotMarkers)
    THEN Classified("screenshot_error", "Screenshot capture failed", "", TRUE)
  ELSE IF Includes(lowerError, ValidationMarkers)
    THEN Classified("validation_error", "Script validation failed", "", FALSE)
  ELSE IF Includes(lowerError, BrowserMarkers)
    THEN Classified("browser_error", "Browser operation failed", "", TRUE)
  ELSE [type |-> "unknown_error", message |-> <<"Unknown error: ", error>>,
        isRetryable |-> TRUE, strategy |-> DEFAULT_RETRY_STRATEGIES["unknown_error"]]

classifyError(error, step) ==
  LET lowerError == toLowerCase(error) IN
  IF Includes(lowerError, NetworkMarkers)
    THEN Classified("network_error", "Network connection issue detected", "", TRUE)
  ELSE IF Includes(lowerError, TimeoutMarkers)
    THEN Classified("timeout_error", "Operation timed out", "", TRUE)
  ELSE IF Includes(lowerError, NotFoundMarkers)
    THEN Classified("element_not_found", "Element not found: ", SelectorOf(step), TRUE)
  ELSE IF Includes(lowerError, NotVisibleMarkers)
    THEN Classified("element_not_visible", "Element not visible: ", SelectorOf(step), TRUE)
  ELSE IF Includes(lowerError, NotClickableMarkers)
    THEN Classified("element_not_clickable", "Element not clickable: ", SelectorOf(step), TRUE)
  ELSE IF Includes(lowerError, NavigationMarkers)
    THEN Classified("navigation_error", "Navigation failed: ", UrlOf(step), TRUE)
  ELSE IF Includes(lowerError, ScreenshotMarkers)
    THEN Classified("screenshot_error", "Screenshot capture failed", "", TRUE)
  ELSE IF Includes(lowerError, ValidationMarkers)
    THEN Classified("validation_error", "Script validation failed", "", FALSE)
  ELSE IF Includes(lowerError, BrowserMarkers)
    THEN Classified("browser_error", "Browser operation failed", "", TRUE)
  ELSE [type |-> "unknown_error", message |-> <<"Unknown error: ", error>>,
        isRetryable |-> TRUE, strategy |-> DEFAULT_RETRY_STRATEGIES["unknown_error"]]

\* variant: the 'fixed' case falls through to a default that yields no delay
calculateRetryDelay_FixedFallsThrough(strategy, attempt) ==
  CASE strategy.backoff = "exponential" -> strategy.delay * Pow2(attempt - 1)
    [] strategy.backoff = "linear"      -> strategy.delay * attempt
    [] OTHER                            -> 0

\* variant: the exponential delay doubles from the first attempt on
calculateRetryDelay_DoublesAtFirst(strategy, attempt) ==
  CASE strategy.backoff = "exponential" -> strategy.delay * Pow2(attempt)
    [] strategy.backoff = "linear"      -> strategy.delay * attempt
    [] OTHER                            -> strategy.delay

calculateRetryDelay(strategy, attempt) ==
  CASE strategy.backoff = "exponential" -> strategy.delay * Pow2(attempt - 1)
    [] strategy.backoff = "linear"      -> strategy.delay * attempt
    [] OTHER                            -> strategy.delay


(* ------------------------------- inputs ------------------------------- *)

\* Error texts, as the sets of classifier markers they contain.
MsgConnectionRefused == {"net::", "connection", "refused"}
MsgTimeout           == {"timeout", "waiting for"}
MsgElementNotFound   == {"not found", "element not found"}
MsgNotVisible        == {"not visible"}
MsgNotClickable      == {"not clickable"}
MsgNavigation        == {"navigation"}
MsgScreenshotFailed  == {"screenshot"}
MsgValidationFailed  == {"validation"}
MsgBrowser           == {"browser", "context"}
MsgUnexpected        == {}
MsgTimeoutNotFound   == {"timeout", "not found"}
MsgInvalidContext    == {"invalid", "context"}

\* no strategy: the entry point in use takes none
NoStrategy == [maxAttempts |-> 0, delay |-> 0, backoff |-> "none"]

\* what an arbitrary operation handed to executeWithSmartRetry may report
DirectMessages ==
  {MsgConnectionRefused, MsgTimeout, MsgElementNotFound, MsgNotVisible,
   MsgNotClickable, MsgNavigation, MsgScreenshotFailed, MsgValidationFailed,
   MsgBrowser, MsgUnexpected, MsgTimeoutNotFound, MsgInvalidContext}

\* what executeActionStep reports in the modelled runs of executeScript
EngineMessages == {MsgTimeout, MsgScreenshotFailed, MsgValidationFailed}

\* '<Kind> action requires ...': the text holds none of the classifier's markers
MsgRequires == {"requires"}

\* An ActionStep. An absent field is "" (selector, url), "undefined" (value),
\* 0 (timeout: the code tests it for truthiness) or FALSE (optional).
ActionStep(type, selector, url, value, timeout, optional) ==
  [type |-> type, selector |-> selector, url |-> url, value |-> value,
   timeout |-> timeout, optional |-> optional]

NoStep            == ActionStep("none", "", "", "undefined", 0, FALSE)
ClickStep         == ActionStep("click", "#button", "", "undefined", 0, FALSE)
BadClickStep      == ActionStep("click", "a >> b", "", "undefined", 0, FALSE)
ScreenshotStep    == ActionStep("screenshot", "", "", "undefined", 0, FALSE)
OptionalClickStep == ActionStep("click", "#banner", "", "undefined", 0, TRUE)
NavigateNoUrlStep == ActionStep("navigate", "", "", "undefined", 0, FALSE)
StepPool          == {ClickStep, BadClickStep, ScreenshotStep, OptionalClickStep,
                      NavigateNoUrlStep}

Scripts ==
  {[name |-> n, steps |-> s] : n \in {"Test Script", ""}, s \in SeqsUpTo(StepPool, MaxSteps)}

\* logging.level of AutoConfig
LevelNames == {"debug", "info", "warn", "error"}

EngineConfigs ==
  [retryAttempts : 0..MaxEngineBudget, screenshotOnError : BOOLEAN, verbose : BOOLEAN,
   level : {"info"}, waitBetweenActions : {0}]

DirectConfigs ==
  [retryAttempts : (-1)..MaxBudget, screenshotOnError : {FALSE}, verbose : BOOLEAN,
   level : {"info"}, waitBetweenActions : {0}]

\* the configurations a Logger is constructed from on its own
LoggerConfigs ==
  [retryAttempts : {3}, screenshotOnError : {TRUE}, verbose : {FALSE}, level : LevelNames,
   waitBetweenActions : {0}]

\* an empty script: the placeholder when executeWithSmartRetry is called directly
NoScript == [name |-> "", steps |-> <<>>]

(* ------------------------------ validator ----------------------------- *)

isValidSelector(selector) == selector \notin {" ", "a >> b", "a <<< b", ".", "#"}

\* new URL(url) does not throw
isValidUrl(url) == url \in {"https://example.com", "file:///index.html"}

\* validateScriptFields, validateSteps and validateStep: the structural errors
validationErrors(s) ==
     (IF s.name = "" THEN {[field |-> "name", step |-> 0]} ELSE {})
  \cup (IF Len(s.steps) = 0 THEN {[field |-> "steps", step |-> 0]} ELSE {})
  \cup {[field |-> "selector", step |-> n] : n \in
          {m \in 1..Len(s.steps) :
             s.steps[m].selector # "" /\ ~isValidSelector(s.steps[m].selector)}}
  \cup {[field |-> "url", step |-> n] : n \in
          {m \in 1..Len(s.steps) :
             s.steps[m].url # "" /\ ~isValidUrl(s.steps[m].url)}}
  \cup {[field |-> "timeout", step |-> n] : n \in
          {m \in 1..Len(s.steps) : s.steps[m].timeout < 0}}

\* checkStepPatterns: the non-fatal warnings (none when there are no steps)
validationWarnings(s) ==
  {n \in 1..(Len(s.steps) - 1) :
     \/ s.steps[n].type = "navigate" /\ s.steps[n + 1].type # "wait"
     \/ s.steps[n].type = "click" /\ s.steps[n + 1].type = "click"}

(* --------------------------- session logger --------------------------- *)

LogLevel == [DEBUG |-> 0, INFO |-> 1, WARN |-> 2, ERROR |-> 3]

levelMap ==
  [n \in LevelNames |->
     CASE n = "debug" -> LogLevel.DEBUG
       [] n = "info"  -> LogLevel.INFO
       [] n = "warn"  -> LogLevel.WARN
       [] OTHER       -> LogLevel.ERROR]

\* level: levelMap[autoConfig.logging.level] || LogLevel.INFO  (0 is falsy)
Logger_createLoggerConfig(autoConfig) ==
  [level |-> IF levelMap[autoConfig.level] # 0
               THEN levelMap[autoConfig.level]
               ELSE LogLevel.INFO,
   enableFileLogging |-> TRUE,
   enableConsoleLogging |-> TRUE]

\* new Logger(autoConfig). calls is the history of the invocations of log (their
\* levels); its length stands for the clock that stamps the entries. console is what
\* writeToConsole printed, writes the entries handed to writeToFile, in call order.
createLogger(autoConfig) ==
  [config |-> Logger_createLoggerConfig(autoConfig), logBuffer |-> <<>>,
   console |-> <<>>, writes |-> <<>>, calls |-> <<>>]

LogEntry(lg, level, category, message) ==
  [id |-> Len(lg.calls) + 1, level |-> level, category |-> category, message |-> message]

\* variant: the entry is buffered before the level is tested
Logger_log_BuffersFirst(lg, level, category, message) ==
  LET entry == LogEntry(lg, level, category, message)
  IN IF level < lg.config.level
       THEN [lg EXCEPT !.calls = Append(@, level), !.logBuffer = Append(@, entry)]
       ELSE [lg EXCEPT
               !.calls = Append(@, level),
               !.logBuffer = Append(@, entry),
               !.console = IF lg.config.enableConsoleLogging THEN Append(@, entry) ELSE @,
               !.writes = IF lg.config.enableFileLogging THEN Append(@, entry) ELSE @]

\* variant: the newest entry is put at the head of the buffer
Logger_log_NewestFirst(lg, level, category, message) ==
  LET entry == LogEntry(lg, level, category, message)
  IN IF level < lg.config.level
       THEN [lg EXCEPT !.calls = Append(@, level)]
       ELSE [lg EXCEPT
               !.calls = Append(@, level),
               !.logBuffer = <<entry>> \o @,
               !.console = IF lg.config.enableConsoleLogging THEN Append(@, entry) ELSE @,
               !.writes = IF lg.config.enableFileLogging THEN Append(@, entry) ELSE @]

\* private log(level, category, message, ...)
Logger_log(lg, level, category, message) ==
  LET entry == LogEntry(lg, level, category, message)
  IN IF level < lg.config.level
       THEN [lg EXCEPT !.calls = Append(@, level)]
       ELSE [lg EXCEPT
               !.calls = Append(@, level),
               !.logBuffer = Append(@, entry),
               !.console = IF lg.config.enableConsoleLogging THEN Append(@, entry) ELSE @,
               !.writes = IF lg.config.enableFileLogging THEN Append(@, entry) ELSE @]

Logger_debug(lg, message) == Logger_log(lg, LogLevel.DEBUG, "debug", message)
Logger_info(lg, message)  == Logger_log(lg, LogLevel.INFO, "info", message)
Logger_warn(lg, message)  == Logger_log(lg, LogLevel.WARN, "warn", message)
Logger_error(lg, message) == Logger_log(lg, LogLevel.ERROR, "error", message)

Logger_step(lg, action, message, ok) ==
  Logger_log(lg, IF ok THEN LogLevel.INFO ELSE LogLevel.ERROR, "step-" \o action, message)

Logger_browser(lg, message) == Logger_log(lg, LogLevel.INFO, "browser", message)

Logger_validation(lg, message, hasErrors, hasWarnings) ==
  Logger_log(lg,
             IF hasErrors THEN LogLevel.ERROR
             ELSE IF hasWarnings THEN LogLevel.WARN ELSE LogLevel.INFO,
             "validation", message)

Logger_getSessionSummary(lg) ==
  [totalLogs |-> Len(lg.logBuffer),
   logsByLevel |-> [l \in {lg.logBuffer[k].level : k \in 1..Len(lg.logBuffer)} |->
                     Cardinality({k \in 1..Len(lg.logBuffer) : lg.logBuffer[k].level = l})]]

\* cleanup: the 'Session completed' entry goes straight to writeToFile
Logger_cleanup(lg) ==
  IF lg.config.enableFileLogging /\ Len(lg.logBuffer) > 0
    THEN [lg EXCEPT !.writes =
            Append(@, [id |-> Len(lg.calls) + 1, level |-> LogLevel.INFO,
                       category |-> "session", message |-> "Session completed",
                       data |-> Logger_getSessionSummary(lg)])]
    ELSE lg

(* ------------------------------- state -------------------------------- *)

VARIABLES
  caller,            \* the entry point in use: "executeScript" or "executeWithSmartRetry"
  config,            \* AutoConfig: actions.retryAttempts, actions.screenshotOnError, logging.verbose
  script,            \* the AutomationScript handed to executeScript
  rawError,          \* the error text handed to classifyError when it is called on its own
  strategyArg,       \* the RetryStrategy handed to calculateRetryDelay called on its own
  recoveryActions,   \* strategy.recoveryActions of the strategies in use; <<>> when absent
  pc,                \* position of executeScript (or of the direct caller)
  browserController, \* the acquired session: which handles are non-null
  i,                 \* loop index of executeScript (0-based)
  stepsExecuted,
  screenshots,       \* ordered screenshot paths
  logs,              \* ExecutionLog records, as <<step, action, status>>
  result,            \* what executeScript returned
  initCalls,         \* invocations of initializeBrowser
  closeCalls,        \* invocations of closeBrowser
  closed,            \* handles whose close() was invoked, in order
  cleanupCalls,      \* invocations of logger.cleanup
  retryCalls,        \* invocations of executeWithSmartRetry
  stepStatus,        \* per step: "pending", "running", "success", "failed", "fault"
  errorShot,         \* the error screenshot of the run: "none", "captured", "failed"
  logger,            \* the Logger of the session, with executeScript's own emissions
  settled,           \* indices of logger.writes whose writeFile has settled
  logFile,           \* the entries appended to the session's log file, in file order
  fileSizeMB,        \* stat(logFilePath).size in MB
  rotatedLogs,       \* the contents of the files written under a rotated name
  rpc,               \* position of executeWithSmartRetry
  attempt,
  lastError,
  retryResult,       \* what executeWithSmartRetry returned
  opStep,            \* the step argument of executeWithSmartRetry
  opCalls,           \* invocations of the operation in the current call
  inflight,          \* invocations of the operation that have not settled
  delays,            \* backoff delays that elapsed in the current call
  pendingDelay,      \* the delay being waited for
  kindsSeen,         \* error types of the Result-failures of the current call
  recoveryIndex,     \* position in strategy.recoveryActions while they run, else 0
  recoveryRuns,      \* the recovery actions run since the last failure, and how each ended
  threw,             \* an invocation of the operation threw in the current call
  waits,             \* inter-action suspensions (waitBetweenActions) made in the run
  closeResult        \* what closeBrowser returned in the finally block, "none" before

engineVars == <<pc, browserController, i, stepsExecuted, screenshots, logs, result,
                initCalls, closeCalls, closed, cleanupCalls, retryCalls, stepStatus,
                errorShot, logger>>
\* the file side of the Logger: Spec follows a run up to the entries handed to
\* writeToFile, LoggerSpec follows the writes themselves
ioVars     == <<settled, logFile, fileSizeMB, rotatedLogs>>
retryVars  == <<rpc, attempt, lastError, retryResult, opStep, opCalls, inflight, delays,
                pendingDelay, kindsSeen, recoveryIndex, recoveryRuns, threw>>
inputVars  == <<caller, config, script, rawError, strategyArg, recoveryActions>>
vars       == <<caller, config, script, rawError, strategyArg, recoveryActions, pc, browserController, i, stepsExecuted,
                screenshots, logs, result, initCalls, closeCalls, closed, cleanupCalls,
                retryCalls, stepStatus, rpc, attempt, lastError, retryResult, opStep,
                opCalls, inflight, delays, pendingDelay, kindsSeen, recoveryIndex, recoveryRuns, threw,
                errorShot, logger, settled, logFile, fileSizeMB,
                rotatedLogs, waits, closeResult>>

NoResult     == [status |-> "none"]
NoError      == [type |-> "null"]
NoController == [acquired |-> FALSE, page |-> FALSE, context |-> FALSE, browser |-> FALSE]

\* nothing has run yet: fresh locals and a fresh Logger
InitState ==
  /\ pc = "idle"
  /\ browserController = NoController
  /\ i = 0
  /\ stepsExecuted = 0
  /\ screenshots = <<>>
  /\ logs = <<>>
  /\ result = NoResult
  /\ initCalls = 0
  /\ closeCalls = 0
  /\ closed = <<>>
  /\ cleanupCalls = 0
  /\ retryCalls = 0
  /\ stepStatus = [n \in 1..Len(script.steps) |-> "pending"]
  /\ errorShot = "none"
  /\ logger = createLogger(config)
  /\ settled = {}
  /\ logFile = <<>>
  /\ fileSizeMB = 0
  /\ rotatedLogs = <<>>
  /\ rpc = "idle"
  /\ attempt = 0
  /\ lastError = NoError
  /\ retryResult = NoResult
  /\ opStep = NoStep
  /\ opCalls = 0
  /\ inflight = 0
  /\ delays = 0
  /\ pendingDelay = 0
  /\ kindsSeen = {}
  /\ recoveryIndex = 0
  /\ recoveryRuns = <<>>
  /\ threw = FALSE
  /\ waits = 0
  /\ closeResult = "none"

Init ==
  /\ caller \in {"executeScript", "executeWithSmartRetry"}
  /\ IF caller = "executeScript"
       THEN config \in EngineConfigs /\ script \in Scripts
       ELSE config \in DirectConfigs /\ script = NoScript
  /\ rawError = {}
  /\ strategyArg = NoStrategy
  /\ recoveryActions = <<>>
  /\ InitState


(* --------------------------- retry executor --------------------------- *)

\* variant: the message counts the retries, not the attempts
FinalMessage_CountsRetries(err, att) ==
  IF err = NoError
    THEN [message |-> <<"Operation failed with unknown error", "">>, type |-> "null",
          attempted |-> 0]
    ELSE [message |-> err.message, type |-> err.type, attempted |-> att - 1]

\* `${lastError.message} (${lastError.type}, attempted ${attempt} times)`
FinalMessage(err, att) ==
  IF err = NoError
    THEN [message |-> <<"Operation failed with unknown error", "">>, type |-> "null",
          attempted |-> 0]
    ELSE [message |-> err.message, type |-> err.type, attempted |-> att]

\* variant: the comparison with the ceiling is off by one (> for >=)
ShouldStop_OffByOne(classifiedError, att, budget) ==
  \/ ~classifiedError.isRetryable
  \/ att > Min(classifiedError.strategy.maxAttempts, budget)

\* variant: only the strategy's ceiling ends the loop
ShouldStop_StrategyOnly(classifiedError, att, budget) ==
  \/ ~classifiedError.isRetryable
  \/ att >= classifiedError.strategy.maxAttempts

\* variant: only the configured budget ends the loop
ShouldStop_BudgetOnly(classifiedError, att, budget) == att >= budget

\* the break condition of the retry loop
ShouldStop(classifiedError, att, budget) ==
  \/ ~classifiedError.isRetryable
  \/ att >= Min(classifiedError.strategy.maxAttempts, budget)

\* what the operation reports on success: executeActionStep returns the path
\* for a screenshot step and undefined otherwise
OperationData ==
  IF caller = "executeScript"
    THEN IF opStep.type = "screenshot" THEN "screenshot.png" ELSE "undefined"
    ELSE "result"

\* the missing-field tests at the head of each case of executeActionStep
MissingRequiredField(step) ==
  CASE step.type = "navigate"            -> step.url = ""
    [] step.type \in {"click", "scroll"} -> step.selector = ""
    [] step.type \in {"type", "select"}  -> step.selector = "" \/ step.value = "undefined"
    [] step.type = "wait"                -> step.selector = "" /\ step.timeout = 0
    [] OTHER                             -> FALSE

\* the Results executeActionStep may return for a step: the 'requires' failure when
\* a required field is missing, otherwise whatever the browser action reports
executeActionStep(step) ==
  IF MissingRequiredField(step)
    THEN {[success |-> FALSE, error |-> MsgRequires]}
    ELSE {[success |-> TRUE, error |-> {}]}
           \cup {[success |-> FALSE, error |-> e] : e \in EngineMessages}

FailureMessages ==
  IF caller = "executeScript"
    THEN {r.error : r \in {x \in executeActionStep(opStep) : ~x.success}}
    ELSE DirectMessages

\* variant: the attempt counter lives on from one call to the next
BeginRetry_KeepsAttempt(step) ==
  /\ rpc' = "invoke"
  /\ attempt' = IF attempt = 0 THEN 1 ELSE attempt
  /\ lastError' = NoError
  /\ retryResult' = NoResult
  /\ opStep' = step
  /\ opCalls' = 0
  /\ delays' = 0
  /\ pendingDelay' = 0
  /\ kindsSeen' = {}
  /\ recoveryIndex' = 0
  /\ recoveryRuns' = <<>>
  /\ threw' = FALSE
  /\ retryCalls' = retryCalls + 1
  /\ UNCHANGED inflight

\* entry of executeWithSmartRetry: lastError = null, attempt = 1
BeginRetry(step) ==
  /\ rpc' = "invoke"
  /\ attempt' = 1
  /\ lastError' = NoError
  /\ retryResult' = NoResult
  /\ opStep' = step
  /\ opCalls' = 0
  /\ delays' = 0
  /\ pendingDelay' = 0
  /\ kindsSeen' = {}
  /\ recoveryIndex' = 0
  /\ recoveryRuns' = <<>>
  /\ threw' = FALSE
  /\ retryCalls' = retryCalls + 1
  /\ UNCHANGED inflight

\* a caller other than the engine calls executeWithSmartRetry(operation, config)
CallExecuteWithSmartRetry ==
  /\ caller = "executeWithSmartRetry"
  /\ pc = "idle"
  /\ pc' = "awaiting"
  /\ BeginRetry(NoStep)
  /\ UNCHANGED <<inputVars, waits, closeResult, ioVars, errorShot, logger, browserController, i, stepsExecuted, screenshots, logs,
                 result, initCalls, closeCalls, closed, cleanupCalls, stepStatus>>

\* variant: the inter-action delay is made before the first attempt of a step only
InvokeOperation_WaitsOncePerStep ==
  /\ rpc = "invoke"
  /\ rpc' = IF caller = "executeScript" /\ config.waitBetweenActions > 0 /\ attempt = 1
              THEN "waiting"
              ELSE "pending"
  /\ opCalls' = opCalls + 1
  /\ recoveryRuns' = <<>>
  /\ inflight' = inflight + 1
  /\ stepStatus' = IF caller = "executeScript"
                     THEN [stepStatus EXCEPT ![i + 1] = "running"]
                     ELSE stepStatus
  /\ UNCHANGED <<inputVars, waits, closeResult, ioVars, errorShot, logger, pc, browserController, i, stepsExecuted, screenshots, logs,
                 result, initCalls, closeCalls, closed, cleanupCalls, retryCalls,
                 attempt, lastError, retryResult, opStep, delays, pendingDelay,
                 kindsSeen, recoveryIndex, threw>>

\* const result = await operation(): the call; executeActionStep begins with the
\* inter-action delay when one is configured
InvokeOperation ==
  /\ rpc = "invoke"
  /\ rpc' = IF caller = "executeScript" /\ config.waitBetweenActions > 0
              THEN "waiting"
              ELSE "pending"
  /\ opCalls' = opCalls + 1
  /\ recoveryRuns' = <<>>
  /\ inflight' = inflight + 1
  /\ stepStatus' = IF caller = "executeScript"
                     THEN [stepStatus EXCEPT ![i + 1] = "running"]
                     ELSE stepStatus
  /\ UNCHANGED <<inputVars, waits, closeResult, ioVars, errorShot, logger, pc, browserController, i, stepsExecuted, screenshots, logs,
                 result, initCalls, closeCalls, closed, cleanupCalls, retryCalls,
                 attempt, lastError, retryResult, opStep, delays, pendingDelay,
                 kindsSeen, recoveryIndex, threw>>

\* await waitForTime(actionConfig.waitBetweenActions) has elapsed: the action begins
WaitBetweenActions ==
  /\ rpc = "waiting"
  /\ rpc' = "pending"
  /\ waits' = waits + 1
  /\ UNCHANGED <<inputVars, closeResult, ioVars, engineVars, attempt, lastError, retryResult, opStep,
                 opCalls, inflight, delays, pendingDelay, kindsSeen, recoveryIndex,
                 recoveryRuns, threw>>

\* the operation settles with success: the result is returned as it is
OperationSucceeds ==
  /\ rpc = "pending"
  /\ caller = "executeScript" => \E r \in executeActionStep(opStep) : r.success
  /\ rpc' = "done"
  /\ inflight' = inflight - 1
  /\ retryResult' = [status |-> "success", data |-> OperationData]
  /\ UNCHANGED <<inputVars, waits, closeResult, ioVars, engineVars, attempt, lastError, opStep, opCalls, delays,
                 pendingDelay, kindsSeen, recoveryIndex, recoveryRuns, threw>>

\* variant: the delay is computed for the attempt to come
OperationFails_DelayOfNextAttempt ==
  /\ rpc = "pending"
  /\ \E error \in FailureMessages :
       LET classifiedError == classifyError(error, opStep)
           strategy == classifiedError.strategy
           delay == calculateRetryDelay(strategy, attempt + 1)
       IN /\ lastError' = classifiedError
          /\ kindsSeen' = kindsSeen \cup {classifiedError.type}
          /\ IF ShouldStop(classifiedError, attempt, config.retryAttempts)
               THEN /\ rpc' = "done"
                    /\ retryResult' = [status |-> "failure",
                                       error |-> FinalMessage(classifiedError, attempt)]
                    /\ UNCHANGED <<attempt, pendingDelay, recoveryIndex>>
               ELSE /\ retryResult' = retryResult
                    /\ IF Len(recoveryActions) > 0
                         THEN /\ rpc' = "recovering"
                              /\ recoveryIndex' = 1
                              /\ UNCHANGED <<attempt, pendingDelay>>
                         ELSE /\ recoveryIndex' = recoveryIndex
                              /\ IF delay > 0
                                   THEN /\ rpc' = "delay" /\ pendingDelay' = delay
                                        /\ attempt' = attempt
                                   ELSE /\ rpc' = "invoke" /\ pendingDelay' = 0
                                        /\ attempt' = attempt + 1
  /\ inflight' = inflight - 1
  /\ UNCHANGED <<inputVars, waits, closeResult, ioVars, engineVars, opStep, opCalls, delays, threw,
                 recoveryRuns>>

\* the operation settles with a Result-failure: classify, then stop or back off
OperationFails ==
  /\ rpc = "pending"
  /\ \E error \in FailureMessages :
       LET classifiedError == classifyError(error, opStep)
           strategy == classifiedError.strategy
           delay == calculateRetryDelay(strategy, attempt)
       IN /\ lastError' = classifiedError
          /\ kindsSeen' = kindsSeen \cup {classifiedError.type}
          /\ IF ShouldStop(classifiedError, attempt, config.retryAttempts)
               THEN /\ rpc' = "done"
                    /\ retryResult' = [status |-> "failure",
                                       error |-> FinalMessage(classifiedError, attempt)]
                    /\ UNCHANGED <<attempt, pendingDelay, recoveryIndex>>
               ELSE /\ retryResult' = retryResult
                    /\ IF Len(recoveryActions) > 0
                         THEN /\ rpc' = "recovering"
                              /\ recoveryIndex' = 1
                              /\ UNCHANGED <<attempt, pendingDelay>>
                         ELSE /\ recoveryIndex' = recoveryIndex
                              /\ IF delay > 0
                                   THEN /\ rpc' = "delay" /\ pendingDelay' = delay
                                        /\ attempt' = attempt
                                   ELSE /\ rpc' = "invoke" /\ pendingDelay' = 0
                                        /\ attempt' = attempt + 1
  /\ inflight' = inflight - 1
  /\ UNCHANGED <<inputVars, waits, closeResult, ioVars, engineVars, opStep, opCalls, delays, threw,
                 recoveryRuns>>

\* await new Promise(resolve => setTimeout(resolve, delay)); attempt++
DelayElapses ==
  /\ rpc = "delay"
  /\ rpc' = "invoke"
  /\ delays' = delays + 1
  /\ pendingDelay' = 0
  /\ attempt' = attempt + 1
  /\ UNCHANGED <<inputVars, waits, closeResult, ioVars, engineVars, lastError, retryResult, opStep, opCalls,
                 inflight, kindsSeen, recoveryIndex, recoveryRuns, threw>>

\* variant: a recovery action that throws ends the call with a failure
RunRecoveryAction_ThrowAborts ==
  /\ rpc = "recovering"
  /\ \E thrown \in BOOLEAN :
       /\ recoveryRuns' = Append(recoveryRuns, [action |-> recoveryActions[recoveryIndex],
                                                threw |-> thrown])
       /\ IF thrown
            THEN /\ rpc' = "done"
                 /\ recoveryIndex' = 0
                 /\ retryResult' = [status |-> "failure",
                                    error |-> FinalMessage(lastError, attempt)]
                 /\ UNCHANGED <<pendingDelay, attempt>>
            ELSE /\ retryResult' = retryResult
                 /\ IF recoveryIndex < Len(recoveryActions)
                      THEN /\ recoveryIndex' = recoveryIndex + 1
                           /\ UNCHANGED <<rpc, pendingDelay, attempt>>
                      ELSE LET delay == calculateRetryDelay(lastError.strategy, attempt)
                           IN /\ recoveryIndex' = 0
                              /\ IF delay > 0
                                   THEN /\ rpc' = "delay" /\ pendingDelay' = delay
                                        /\ attempt' = attempt
                                   ELSE /\ rpc' = "invoke" /\ pendingDelay' = 0
                                        /\ attempt' = attempt + 1
  /\ UNCHANGED <<inputVars, waits, closeResult, ioVars, engineVars, lastError, opStep, opCalls,
                 inflight, delays, kindsSeen, threw>>

\* await recoveryAction(), inside the try block around the loop over
\* strategy.recoveryActions: a throw ends the loop, then the delay is calculated
RunRecoveryAction ==
  /\ rpc = "recovering"
  /\ \E thrown \in BOOLEAN :
       /\ recoveryRuns' = Append(recoveryRuns, [action |-> recoveryActions[recoveryIndex],
                                                threw |-> thrown])
       /\ IF ~thrown /\ recoveryIndex < Len(recoveryActions)
            THEN /\ recoveryIndex' = recoveryIndex + 1
                 /\ UNCHANGED <<rpc, pendingDelay, attempt>>
            ELSE LET delay == calculateRetryDelay(lastError.strategy, attempt)
                 IN /\ recoveryIndex' = 0
                    /\ IF delay > 0
                         THEN /\ rpc' = "delay" /\ pendingDelay' = delay
                              /\ attempt' = attempt
                         ELSE /\ rpc' = "invoke" /\ pendingDelay' = 0
                              /\ attempt' = attempt + 1
  /\ UNCHANGED <<inputVars, waits, closeResult, ioVars, engineVars, lastError, retryResult, opStep, opCalls,
                 inflight, delays, kindsSeen, threw>>

\* variant: the catch block records the error and lets the loop go on
OperationThrows_Retried ==
  /\ caller = "executeWithSmartRetry"
  /\ rpc = "pending"
  /\ \E error \in DirectMessages : lastError' = classifyError(error, opStep)
  /\ IF attempt >= config.retryAttempts
       THEN /\ rpc' = "done"
            /\ retryResult' = [status |-> "failure",
                               error |-> FinalMessage(lastError', attempt)]
            /\ attempt' = attempt
       ELSE /\ rpc' = "invoke"
            /\ retryResult' = retryResult
            /\ attempt' = attempt + 1
  /\ threw' = TRUE
  /\ inflight' = inflight - 1
  /\ UNCHANGED <<inputVars, waits, closeResult, ioVars, engineVars, opStep, opCalls, delays, pendingDelay, kindsSeen, recoveryIndex, recoveryRuns>>

\* the operation throws: classify String(unexpectedError) and leave the loop.
\* executeActionStep catches everything it runs, so only an operation supplied by
\* another caller can throw.
OperationThrows ==
  /\ caller = "executeWithSmartRetry"
  /\ rpc = "pending"
  /\ \E error \in DirectMessages :
       LET classifiedError == classifyError(error, opStep)
       IN /\ lastError' = classifiedError
          /\ retryResult' = [status |-> "failure",
                             error |-> FinalMessage(classifiedError, attempt)]
  /\ rpc' = "done"
  /\ threw' = TRUE
  /\ inflight' = inflight - 1
  /\ UNCHANGED <<inputVars, waits, closeResult, ioVars, engineVars, attempt, opStep, opCalls, delays, pendingDelay,
                 kindsSeen, recoveryIndex, recoveryRuns>>


(* --------------------------- browser session -------------------------- *)

\* what a Browser Session Provider may hand back on success: a BrowserController
\* whose page may be null
Controllers ==
  {[acquired |-> TRUE, page |-> p, context |-> TRUE, browser |-> TRUE] : p \in BOOLEAN}

Handles == <<"page", "context", "browser">>

RECURSIVE closeFrom(_, _, _)
\* the closes of closeBrowser from handle k on: each non-null handle is closed in
\* turn, and the first close that throws ends the try block
closeFrom(controller, failing, k) ==
  IF k > Len(Handles) THEN <<>>
  ELSE IF ~controller[Handles[k]] THEN closeFrom(controller, failing, k + 1)
  ELSE IF Handles[k] \in failing THEN <<Handles[k]>>
  ELSE <<Handles[k]>> \o closeFrom(controller, failing, k + 1)

closeBrowser(controller, failing) == closeFrom(controller, failing, 1)

\* the Result of closeBrowser: a failure when one of the closes it invoked threw
closeBrowserResult(controller, failing) ==
  IF \E k \in 1..Len(closeBrowser(controller, failing)) :
       closeBrowser(controller, failing)[k] \in failing
    THEN "failure"
    ELSE "success"

(* -------------------------- execution engine -------------------------- *)

\* variant: a failed run reports the number of the failing step as stepsExecuted
ExecutionResult_CountsFailingStep(ok, executed, shots, err) ==
  [success |-> ok, stepsExecuted |-> IF ok THEN executed ELSE i + 1,
   totalSteps |-> Len(script.steps), screenshots |-> shots, error |-> err]

ExecutionResult(ok, executed, shots, err) ==
  [success |-> ok, stepsExecuted |-> executed, totalSteps |-> Len(script.steps),
   screenshots |-> shots, error |-> err]

NoErrorField == [kind |-> "none"]

\* the logs field of an ExecutionResult: every return statement puts the array
\* `logs` itself into the result, not a copy of it
ResultLogs == logs

\* variant: validation errors are logged but the run goes on
ExecuteScript_IgnoresErrors ==
  /\ caller = "executeScript"
  /\ pc = "idle"
  /\ result' = result
  /\ pc' = "init"
  /\ logs' = IF validationWarnings(script) # {} /\ config.verbose
               THEN Append(logs, <<0, "validation", "warning">>)
               ELSE logs
  /\ logger' =
       LET started == Logger_info(logger, "Starting script execution")
       IN IF validationWarnings(script) # {}
            THEN Logger_validation(started, "Script validation completed with warnings",
                                   FALSE, TRUE)
            ELSE Logger_validation(started, "Script validation passed", FALSE, FALSE)
  /\ UNCHANGED <<inputVars, waits, closeResult, ioVars, errorShot, browserController, i, stepsExecuted, screenshots, initCalls,
                 closeCalls, closed, cleanupCalls, retryCalls, stepStatus, retryVars>>

\* executeScript up to the validation: a structural error is a function-level failure
ExecuteScript ==
  /\ caller = "executeScript"
  /\ pc = "idle"
  /\ IF validationErrors(script) # {}
       THEN /\ result' = [status |-> "failure",
                          error |-> [kind |-> "Script validation failed"]]
            /\ pc' = "finally"
            /\ logs' = logs
       ELSE /\ result' = result
            /\ pc' = "init"
            /\ logs' = IF validationWarnings(script) # {} /\ config.verbose
                         THEN Append(logs, <<0, "validation", "warning">>)
                         ELSE logs
  /\ logger' =
       LET started == Logger_info(logger, "Starting script execution")
       IN IF validationErrors(script) # {}
            THEN Logger_validation(started, "Script validation failed", TRUE,
                                   validationWarnings(script) # {})
            ELSE IF validationWarnings(script) # {}
              THEN Logger_validation(started, "Script validation completed with warnings",
                                     FALSE, TRUE)
              ELSE Logger_validation(started, "Script validation passed", FALSE, FALSE)
  /\ UNCHANGED <<inputVars, waits, closeResult, ioVars, errorShot, browserController, i, stepsExecuted, screenshots, initCalls,
                 closeCalls, closed, cleanupCalls, retryCalls, stepStatus, retryVars>>

\* await initializeBrowser(config, logger) reports a failure
InitializeBrowserFails ==
  /\ pc = "init"
  /\ initCalls' = initCalls + 1
  /\ result' = [status |-> "failure", error |-> [kind |-> "Failed to initialize browser"]]
  /\ pc' = "finally"
  /\ logger' = Logger_error(logger, "Failed to initialize browser")
  /\ UNCHANGED <<inputVars, waits, closeResult, ioVars, errorShot, browserController, i, stepsExecuted, screenshots, logs,
                 closeCalls, closed, cleanupCalls, retryCalls, stepStatus, retryVars>>

\* variant: the session is used without checking that it has a page
InitializeBrowser_NoPageCheck ==
  /\ pc = "init"
  /\ initCalls' = initCalls + 1
  /\ \E controller \in Controllers : browserController' = controller
  /\ result' = result
  /\ pc' = "loop"
  /\ logs' = Append(logs, <<0, "browser_init", "success">>)
  /\ UNCHANGED <<inputVars, waits, closeResult, ioVars, errorShot, logger, i, stepsExecuted, screenshots, closeCalls, closed,
                 cleanupCalls, retryCalls, stepStatus, retryVars>>

\* await initializeBrowser(config, logger) hands back a session
InitializeBrowser ==
  /\ pc = "init"
  /\ initCalls' = initCalls + 1
  /\ \E controller \in Controllers :
       /\ browserController' = controller
       /\ IF ~controller.page
            THEN /\ result' = [status |-> "failure",
                               error |-> [kind |-> "Browser page is not available"]]
                 /\ pc' = "finally"
                 /\ logs' = logs
            ELSE /\ result' = result
                 /\ pc' = "loop"
                 /\ logs' = Append(logs, <<0, "browser_init", "success">>)
  /\ logger' = IF ~browserController'.page
                 THEN Logger_error(logger, "Browser page is not available")
                 ELSE logger
  /\ UNCHANGED <<inputVars, waits, closeResult, ioVars, errorShot, i, stepsExecuted, screenshots, closeCalls, closed,
                 cleanupCalls, retryCalls, stepStatus, retryVars>>

\* top of the loop body for step i + 1: the retry executor is called
StartStep ==
  /\ pc = "loop"
  /\ i < Len(script.steps)
  /\ pc' = "in_retry"
  /\ BeginRetry(script.steps[i + 1])
  /\ logger' = Logger_info(logger, "Starting step")
  /\ UNCHANGED <<inputVars, waits, closeResult, ioVars, errorShot, browserController, i, stepsExecuted, screenshots, logs,
                 result, initCalls, closeCalls, closed, cleanupCalls, stepStatus>>

\* variant: stepsExecuted++ sits in the branch of the non-screenshot steps
StepSucceeded_ScreenshotNotCounted ==
  /\ pc = "in_retry"
  /\ rpc = "done"
  /\ retryResult.status = "success"
  /\ IF retryResult.data # "undefined" /\ opStep.type = "screenshot"
       THEN /\ screenshots' = Append(screenshots, <<"step", i + 1, retryResult.data>>)
            /\ stepsExecuted' = stepsExecuted
       ELSE /\ screenshots' = screenshots
            /\ stepsExecuted' = stepsExecuted + 1
  /\ logs' = Append(logs, <<i + 1, opStep.type, "success">>)
  /\ stepStatus' = [stepStatus EXCEPT ![i + 1] = "success"]
  /\ i' = i + 1
  /\ pc' = "loop"
  /\ rpc' = "idle"
  /\ logger' = Logger_step(logger, opStep.type, "summary", TRUE)
  /\ UNCHANGED <<inputVars, waits, closeResult, ioVars, errorShot, browserController, result, initCalls, closeCalls, closed,
                 cleanupCalls, retryCalls, attempt, lastError, retryResult, opStep,
                 opCalls, inflight, delays, pendingDelay, kindsSeen, recoveryIndex, recoveryRuns, threw>>

\* stepResult.success: count the step and go on with the next one
StepSucceeded ==
  /\ pc = "in_retry"
  /\ rpc = "done"
  /\ retryResult.status = "success"
  /\ stepsExecuted' = stepsExecuted + 1
  /\ screenshots' = IF retryResult.data # "undefined" /\ opStep.type = "screenshot"
                      THEN Append(screenshots, <<"step", i + 1, retryResult.data>>)
                      ELSE screenshots
  /\ logs' = Append(logs, <<i + 1, opStep.type, "success">>)
  /\ stepStatus' = [stepStatus EXCEPT ![i + 1] = "success"]
  /\ i' = i + 1
  /\ pc' = "loop"
  /\ rpc' = "idle"
  /\ logger' = Logger_step(logger, opStep.type, "summary", TRUE)
  /\ UNCHANGED <<inputVars, waits, closeResult, ioVars, errorShot, browserController, result, initCalls, closeCalls, closed,
                 cleanupCalls, retryCalls, attempt, lastError, retryResult, opStep,
                 opCalls, inflight, delays, pendingDelay, kindsSeen, recoveryIndex, recoveryRuns, threw>>

\* variant: a failed step is recorded and the loop goes on with the next step
StepFailed_Continues ==
  /\ pc = "in_retry"
  /\ rpc = "done"
  /\ retryResult.status = "failure"
  /\ logs' = Append(logs, <<i + 1, opStep.type, "error">>)
  /\ stepStatus' = [stepStatus EXCEPT ![i + 1] = "failed"]
  /\ i' = i + 1
  /\ pc' = "loop"
  /\ rpc' = "idle"
  /\ logger' = Logger_step(logger, opStep.type, "Failed", FALSE)
  /\ UNCHANGED <<inputVars, waits, closeResult, ioVars, errorShot, browserController, stepsExecuted, screenshots, result,
                 initCalls, closeCalls, closed, cleanupCalls, retryCalls, attempt,
                 lastError, retryResult, opStep, opCalls, inflight, delays, pendingDelay,
                 kindsSeen, recoveryIndex, recoveryRuns, threw>>

\* variant: the error screenshot is taken whatever screenshotOnError says
StepFailed_IgnoresFlag ==
  /\ pc = "in_retry"
  /\ rpc = "done"
  /\ retryResult.status = "failure"
  /\ logs' = Append(logs, <<i + 1, opStep.type, "error">>)
  /\ stepStatus' = [stepStatus EXCEPT ![i + 1] = "failed"]
  /\ \E captured \in BOOLEAN :
       LET failed == Logger_step(logger, opStep.type, "Failed", FALSE)
       IN /\ errorShot' = IF browserController.page
                            THEN IF captured THEN "captured" ELSE "failed"
                            ELSE "none"
          /\ screenshots' = IF errorShot' = "captured"
                              THEN Append(screenshots, <<"error", i + 1, "error-step.png">>)
                              ELSE screenshots
          /\ logger' = Logger_cleanup(
                         IF errorShot' = "failed"
                           THEN Logger_error(failed, "Failed to capture error screenshot")
                           ELSE failed)
          /\ result' = [status |-> "success",
                        data |-> ExecutionResult(FALSE, stepsExecuted, screenshots',
                                                 [kind |-> "retry", text |-> retryResult.error])]
  /\ cleanupCalls' = cleanupCalls + 1
  /\ pc' = "finally"
  /\ rpc' = "idle"
  /\ UNCHANGED <<inputVars, waits, closeResult, ioVars, browserController, i, stepsExecuted, initCalls, closeCalls,
                 closed, retryCalls, attempt, lastError, retryResult, opStep, opCalls,
                 inflight, delays, pendingDelay, kindsSeen, recoveryIndex, recoveryRuns, threw>>

\* variant: a failed capture of the error screenshot fails the whole call
StepFailed_CaptureEscalates ==
  /\ pc = "in_retry"
  /\ rpc = "done"
  /\ retryResult.status = "failure"
  /\ logs' = Append(logs, <<i + 1, opStep.type, "error">>)
  /\ stepStatus' = [stepStatus EXCEPT ![i + 1] = "failed"]
  /\ \E captured \in BOOLEAN :
       LET failed == Logger_step(logger, opStep.type, "Failed", FALSE)
       IN /\ errorShot' = IF config.screenshotOnError /\ browserController.page
                            THEN IF captured THEN "captured" ELSE "failed"
                            ELSE "none"
          /\ screenshots' = IF errorShot' = "captured"
                              THEN Append(screenshots, <<"error", i + 1, "error-step.png">>)
                              ELSE screenshots
          /\ logger' = Logger_cleanup(
                         IF errorShot' = "failed"
                           THEN Logger_error(failed, "Failed to capture error screenshot")
                           ELSE failed)
          /\ result' = IF errorShot' = "failed"
                         THEN [status |-> "failure", error |-> [kind |-> "screenshot"]]
                         ELSE [status |-> "success",
                               data |-> ExecutionResult(FALSE, stepsExecuted, screenshots',
                                                        [kind |-> "retry",
                                                         text |-> retryResult.error])]
  /\ cleanupCalls' = cleanupCalls + 1
  /\ pc' = "finally"
  /\ rpc' = "idle"
  /\ UNCHANGED <<inputVars, waits, closeResult, ioVars, browserController, i, stepsExecuted, initCalls, closeCalls,
                 closed, retryCalls, attempt, lastError, retryResult, opStep, opCalls,
                 inflight, delays, pendingDelay, kindsSeen, recoveryIndex, recoveryRuns, threw>>

\* !stepResult.success: record the failure, take the error screenshot if enabled,
\* clean the logger up and return the failed ExecutionResult
StepFailed ==
  /\ pc = "in_retry"
  /\ rpc = "done"
  /\ retryResult.status = "failure"
  /\ logs' = Append(logs, <<i + 1, opStep.type, "error">>)
  /\ stepStatus' = [stepStatus EXCEPT ![i + 1] = "failed"]
  /\ \E captured \in BOOLEAN :
       LET failed == Logger_step(logger, opStep.type, "Failed", FALSE)
       IN /\ errorShot' = IF config.screenshotOnError /\ browserController.page
                            THEN IF captured THEN "captured" ELSE "failed"
                            ELSE "none"
          /\ screenshots' = IF errorShot' = "captured"
                              THEN Append(screenshots, <<"error", i + 1, "error-step.png">>)
                              ELSE screenshots
          /\ logger' = Logger_cleanup(
                         IF errorShot' = "failed"
                           THEN Logger_error(failed, "Failed to capture error screenshot")
                           ELSE failed)
          /\ result' = [status |-> "success",
                        data |-> ExecutionResult(FALSE, stepsExecuted, screenshots',
                                                 [kind |-> "retry", text |-> retryResult.error])]
  /\ cleanupCalls' = cleanupCalls + 1
  /\ pc' = "finally"
  /\ rpc' = "idle"
  /\ UNCHANGED <<inputVars, waits, closeResult, ioVars, browserController, i, stepsExecuted, initCalls, closeCalls,
                 closed, retryCalls, attempt, lastError, retryResult, opStep, opCalls,
                 inflight, delays, pendingDelay, kindsSeen, recoveryIndex, recoveryRuns, threw>>

\* variant: the per-step catch lets the fault escape as a function-level failure
StepFault_Escapes ==
  /\ pc = "in_retry"
  /\ rpc = "invoke"
  /\ logs' = Append(logs, <<i + 1, opStep.type, "error">>)
  /\ stepStatus' = [stepStatus EXCEPT ![i + 1] = "fault"]
  /\ result' = [status |-> "failure", error |-> [kind |-> "thrown"]]
  /\ cleanupCalls' = cleanupCalls + 1
  /\ pc' = "finally"
  /\ rpc' = "idle"
  /\ logger' = Logger_cleanup(Logger_error(logger, "Unexpected error in step"))
  /\ UNCHANGED <<inputVars, waits, closeResult, ioVars, errorShot, browserController, i, stepsExecuted, screenshots, initCalls,
                 closeCalls, closed, retryCalls, attempt, lastError, retryResult, opStep,
                 opCalls, inflight, delays, pendingDelay, kindsSeen, recoveryIndex, recoveryRuns, threw>>

\* variant: the per-step catch adds no record to the log list
StepFault_NoRecord ==
  /\ pc = "in_retry"
  /\ rpc = "invoke"
  /\ logs' = logs
  /\ stepStatus' = [stepStatus EXCEPT ![i + 1] = "fault"]
  /\ result' = [status |-> "success",
                data |-> ExecutionResult(FALSE, stepsExecuted, screenshots,
                                         [kind |-> "thrown"])]
  /\ cleanupCalls' = cleanupCalls + 1
  /\ pc' = "finally"
  /\ rpc' = "idle"
  /\ logger' = Logger_cleanup(Logger_error(logger, "Unexpected error in step"))
  /\ UNCHANGED <<inputVars, waits, closeResult, ioVars, errorShot, browserController, i, stepsExecuted, screenshots, initCalls,
                 closeCalls, closed, retryCalls, attempt, lastError, retryResult, opStep,
                 opCalls, inflight, delays, pendingDelay, kindsSeen, recoveryIndex, recoveryRuns, threw>>

\* a fault surfaces inside the per-step try block while the step is being executed:
\* the per-step catch records it and returns the failed ExecutionResult
StepFault ==
  /\ pc = "in_retry"
  /\ rpc = "invoke"
  /\ logs' = Append(logs, <<i + 1, opStep.type, "error">>)
  /\ stepStatus' = [stepStatus EXCEPT ![i + 1] = "fault"]
  /\ result' = [status |-> "success",
                data |-> ExecutionResult(FALSE, stepsExecuted, screenshots,
                                         [kind |-> "thrown"])]
  /\ cleanupCalls' = cleanupCalls + 1
  /\ pc' = "finally"
  /\ rpc' = "idle"
  /\ logger' = Logger_cleanup(Logger_error(logger, "Unexpected error in step"))
  /\ UNCHANGED <<inputVars, waits, closeResult, ioVars, errorShot, browserController, i, stepsExecuted, screenshots, initCalls,
                 closeCalls, closed, retryCalls, attempt, lastError, retryResult, opStep,
                 opCalls, inflight, delays, pendingDelay, kindsSeen, recoveryIndex, recoveryRuns, threw>>

\* a fault surfaces in the loop body outside the per-step try block: the outer catch
\* returns a failed ExecutionResult with stepsExecuted: 0
LoopFault ==
  /\ pc = "loop"
  /\ i < Len(script.steps)
  /\ result' = [status |-> "success",
                data |-> ExecutionResult(FALSE, 0, screenshots, [kind |-> "thrown"])]
  /\ cleanupCalls' = cleanupCalls + 1
  /\ pc' = "finally"
  /\ logger' = Logger_cleanup(
                  Logger_error(logger, "Script execution failed with unexpected error"))
  /\ UNCHANGED <<inputVars, waits, closeResult, ioVars, errorShot, browserController, i, stepsExecuted, screenshots, logs,
                 initCalls, closeCalls, closed, retryCalls, stepStatus, retryVars>>

\* the loop is over: every step succeeded
Complete ==
  /\ pc = "loop"
  /\ i >= Len(script.steps)
  /\ logs' = Append(logs, <<0, "completion", "success">>)
  /\ cleanupCalls' = cleanupCalls + 1
  /\ result' = [status |-> "success",
                data |-> ExecutionResult(TRUE, stepsExecuted, screenshots, NoErrorField)]
  /\ pc' = "finally"
  /\ logger' = Logger_cleanup(
                  Logger_info(logger, "Script execution completed successfully"))
  /\ UNCHANGED <<inputVars, waits, closeResult, ioVars, errorShot, browserController, i, stepsExecuted, screenshots, initCalls,
                 closeCalls, closed, retryCalls, stepStatus, retryVars>>

\* variant: the teardown tests browserController.page instead of browserController
Finally_ClosesOnlyWithPage ==
  /\ pc = "finally"
  /\ IF browserController.page
       THEN \E failing \in SUBSET {"page", "context", "browser"} :
              /\ closeCalls' = closeCalls + 1
              /\ closed' = closed \o closeBrowser(browserController, failing)
              /\ closeResult' = closeBrowserResult(browserController, failing)
              /\ logger' = Logger_browser(logger, "Browser closed")
              /\ logs' = Append(logs, <<0, "browser_cleanup", "success">>)
       ELSE UNCHANGED <<closeCalls, closed, closeResult, logger, logs>>
  /\ pc' = "returned"
  /\ UNCHANGED <<inputVars, waits, ioVars, errorShot, browserController, i, stepsExecuted, screenshots, result,
                 initCalls, cleanupCalls, retryCalls, stepStatus, retryVars>>

\* finally: release the browser session if one was acquired, then return
Finally ==
  /\ pc = "finally"
  /\ IF browserController.acquired
       THEN \E failing \in SUBSET {"page", "context", "browser"} :
              /\ closeCalls' = closeCalls + 1
              /\ closed' = closed \o closeBrowser(browserController, failing)
              /\ closeResult' = closeBrowserResult(browserController, failing)
              /\ logger' = Logger_browser(logger, "Browser closed")
              /\ logs' = Append(logs, <<0, "browser_cleanup", "success">>)
       ELSE UNCHANGED <<closeCalls, closed, closeResult, logger, logs>>
  /\ pc' = "returned"
  /\ UNCHANGED <<inputVars, waits, ioVars, errorShot, browserController, i, stepsExecuted, screenshots, result,
                 initCalls, cleanupCalls, retryCalls, stepStatus, retryVars>>

Next ==
  \/ CallExecuteWithSmartRetry
  \/ InvokeOperation
  \/ OperationSucceeds
  \/ OperationFails
  \/ DelayElapses
  \/ OperationThrows
  \/ ExecuteScript
  \/ InitializeBrowserFails
  \/ InitializeBrowser
  \/ StartStep
  \/ StepSucceeded
  \/ StepFailed
  \/ StepFault
  \/ LoopFault
  \/ Complete
  \/ Finally

Spec == Init /\ [][Next]_vars


(* ----------------------- the Logger used on its own -------------------- *)

LevelNameOf(level) == <<"DEBUG", "INFO", "WARN", "ERROR">>[level + 1]

\* the 'structured' line writeToFile appends for an entry: timestamp, padded level
\* name, category and message, and a Data line when the entry carries data
formattedEntry(entry) ==
  [timestamp |-> entry.id, levelName |-> LevelNameOf(entry.level),
   category |-> entry.category, message |-> entry.message,
   data |-> "data" \in DOMAIN entry]

\* maxFileSize of the LoggerConfig, in MB
maxFileSize == 50

\* what one appended line adds to the file, in MB: next to nothing, or more than
\* maxFileSize when the entry carries a very large data payload
LineSizesMB == {0, 51}

\* variant: readdir of a regular file resolves, with an empty listing
readdir_ResolvesForFile(kind) == [threw |-> FALSE, data |-> <<>>]

\* readdir(path): a listing for a directory, ENOTDIR thrown for a regular file
readdir(kind) ==
  IF kind = "directory" THEN [threw |-> FALSE, data |-> <<>>] ELSE [threw |-> TRUE]

\* rotateLogIfNeeded on the files [logFile, fileSizeMB, rotatedLogs]: above the
\* maximum, write readdir(this.logFilePath) under the rotated name and unlink the log
\* file; whatever throws is swallowed
rotateLogIfNeeded(files) ==
  IF files.fileSizeMB > maxFileSize
    THEN LET listing == readdir("file")
         IN IF listing.threw
              THEN files
              ELSE [files EXCEPT !.rotatedLogs = Append(@, listing.data),
                                 !.logFile = <<>>,
                                 !.fileSizeMB = 0]
    ELSE files

\* the calls of writeToFile whose writeFile has not settled
PendingWrites == (1..Len(logger.writes)) \ settled

LoggerInit ==
  /\ caller = "createLogger"
  /\ config \in LoggerConfigs
  /\ script = NoScript
  /\ rawError = {}
  /\ strategyArg = NoStrategy
  /\ recoveryActions = <<>>
  /\ InitState

\* a client calls debug, info, warn or error
LoggerEmits ==
  /\ caller = "createLogger"
  /\ Len(logger.calls) < MaxEmissions
  /\ Cardinality(PendingWrites) < MaxInFlight
  /\ \E method \in LevelNames :
       logger' = CASE method = "debug" -> Logger_debug(logger, "Test debug message")
                   [] method = "info"  -> Logger_info(logger, "Test info message")
                   [] method = "warn"  -> Logger_warn(logger, "Test warning message")
                   [] OTHER            -> Logger_error(logger, "Test error message")
  /\ UNCHANGED <<inputVars, waits, closeResult, ioVars, pc, browserController, i, stepsExecuted, screenshots,
                 logs, result, initCalls, closeCalls, closed, cleanupCalls, retryCalls,
                 stepStatus, errorShot, retryVars>>

\* a client calls cleanup
LoggerCleanup ==
  /\ caller = "createLogger"
  /\ cleanupCalls < MaxCleanups
  /\ Cardinality(PendingWrites) < MaxInFlight
  /\ cleanupCalls' = cleanupCalls + 1
  /\ logger' = Logger_cleanup(logger)
  /\ UNCHANGED <<inputVars, waits, closeResult, ioVars, pc, browserController, i, stepsExecuted, screenshots,
                 logs, result, initCalls, closeCalls, closed, retryCalls, stepStatus,
                 errorShot, retryVars>>

\* await writeFile(this.logFilePath, formattedEntry, {flag: 'a'}) of one of the
\* writes in flight appends its line; nothing orders the writes in flight
WriteFileCompletes ==
  /\ caller = "createLogger"
  /\ \E k \in PendingWrites, mb \in LineSizesMB :
       LET files == rotateLogIfNeeded(
                      [logFile |-> Append(logFile, formattedEntry(logger.writes[k])),
                       fileSizeMB |-> fileSizeMB + mb,
                       rotatedLogs |-> rotatedLogs])
       IN /\ logFile' = files.logFile
          /\ fileSizeMB' = files.fileSizeMB
          /\ rotatedLogs' = files.rotatedLogs
          /\ settled' = settled \cup {k}
  /\ UNCHANGED <<inputVars, waits, closeResult, engineVars, retryVars>>

\* variant: the rejection unwinds the emission, whose entry leaves the buffer
WriteFileFails_Propagates ==
  /\ caller = "createLogger"
  /\ \E k \in PendingWrites :
       /\ settled' = settled \cup {k}
       /\ logger' = [logger EXCEPT !.logBuffer =
                       SelectSeq(@, LAMBDA e : e.id # logger.writes[k].id)]
  /\ UNCHANGED <<inputVars, waits, closeResult, pc, browserController, i, stepsExecuted, screenshots, logs,
                 result, initCalls, closeCalls, closed, cleanupCalls, retryCalls,
                 stepStatus, errorShot, retryVars, logFile, fileSizeMB, rotatedLogs>>

\* writeFile rejects: writeToFile reports it on the console and the line is lost
WriteFileFails ==
  /\ caller = "createLogger"
  /\ \E k \in PendingWrites : settled' = settled \cup {k}
  /\ UNCHANGED <<inputVars, waits, closeResult, engineVars, retryVars, logFile, fileSizeMB, rotatedLogs>>

LoggerNext ==
  \/ LoggerEmits
  \/ LoggerCleanup
  \/ WriteFileCompletes
  \/ WriteFileFails

LoggerSpec == LoggerInit /\ [][LoggerNext]_vars


(* ------------- classifyError and calculateRetryDelay on their own ----- *)

\* the words a raw error text is made of: every marker of the classifier, the
\* words of Lowered, and a word that holds no marker
Words ==
  NetworkMarkers \cup TimeoutMarkers \cup NotFoundMarkers \cup NotVisibleMarkers
    \cup NotClickableMarkers \cup NavigationMarkers \cup ScreenshotMarkers
    \cup ValidationMarkers \cup BrowserMarkers \cup DOMAIN Lowered \cup MsgRequires

RECURSIVE SubsetsUpTo(_, _)
SubsetsUpTo(S, n) ==
  IF n = 0 THEN {{}}
  ELSE LET P == SubsetsUpTo(S, n - 1) IN P \cup {p \cup {w} : p \in P, w \in S}

\* raw error texts; a text that holds 'element not found' holds 'not found'
RawErrors ==
  {e \in SubsetsUpTo(Words, MaxWords) : "element not found" \in e => "not found" \in e}

\* the strategies handed to calculateRetryDelay: the defaults, and the tests' 1000 ms
\* (and 0 ms) under each backoff
StrategyArgs ==
  {DEFAULT_RETRY_STRATEGIES[t] : t \in ErrorTypes}
    \cup [maxAttempts : {3}, delay : {0, 1000}, backoff : {"fixed", "linear", "exponential"}]

FunctionsInit ==
  /\ caller \in {"classifyError", "calculateRetryDelay"}
  /\ config \in {c \in LoggerConfigs : c.level = "info"}
  /\ script = NoScript
  /\ IF caller = "classifyError"
       THEN rawError \in RawErrors /\ strategyArg = NoStrategy
       ELSE rawError = {} /\ strategyArg \in StrategyArgs
  /\ recoveryActions = <<>>
  /\ InitState

\* classifyError(rawError, step): lastError holds what it returned
CallClassifyError ==
  /\ caller = "classifyError"
  /\ \E step \in {NoStep, ClickStep} :
       /\ lastError' = classifyError(rawError, step)
       /\ opStep' = step
  /\ UNCHANGED <<inputVars, waits, closeResult, ioVars, engineVars, rpc, attempt, retryResult, opCalls,
                 inflight, delays, pendingDelay, kindsSeen, recoveryIndex, recoveryRuns, threw>>

\* calculateRetryDelay(strategyArg, n): attempt holds n, pendingDelay what it returned
CallCalculateRetryDelay ==
  /\ caller = "calculateRetryDelay"
  /\ \E n \in 1..MaxAttemptNumber :
       /\ attempt' = n
       /\ pendingDelay' = calculateRetryDelay(strategyArg, n)
  /\ UNCHANGED <<inputVars, waits, closeResult, ioVars, engineVars, rpc, lastError, retryResult, opStep,
                 opCalls, inflight, delays, kindsSeen, recoveryIndex, recoveryRuns, threw>>

FunctionsNext ==
  \/ CallClassifyError
  \/ CallCalculateRetryDelay

FunctionsSpec == FunctionsInit /\ [][FunctionsNext]_vars


(* ------------ executeWithSmartRetry with recovery actions ------------- *)

\* the lists of recovery actions a strategy may carry, the actions named by their
\* place in the list
RecoveryLists == {[n \in 1..k |-> n] : k \in 0..MaxRecoveryActions}

RecoveryInit ==
  /\ caller = "executeWithSmartRetry"
  /\ config \in DirectConfigs
  /\ script = NoScript
  /\ rawError = {}
  /\ strategyArg = NoStrategy
  /\ recoveryActions \in RecoveryLists
  /\ InitState

RecoveryNext ==
  \/ CallExecuteWithSmartRetry
  \/ InvokeOperation
  \/ OperationSucceeds
  \/ OperationFails
  \/ RunRecoveryAction
  \/ DelayElapses
  \/ OperationThrows

RecoverySpec == RecoveryInit /\ [][RecoveryNext]_vars


(* ------------- executeWithSmartRetry, every outcome arriving ----------- *)

RetryInit ==
  /\ caller = "executeWithSmartRetry"
  /\ config \in DirectConfigs
  /\ script = NoScript
  /\ rawError = {}
  /\ strategyArg = NoStrategy
  /\ recoveryActions = <<>>
  /\ InitState

RetryNext ==
  \/ CallExecuteWithSmartRetry
  \/ InvokeOperation
  \/ OperationSucceeds
  \/ OperationFails
  \/ DelayElapses
  \/ OperationThrows

\* the call is made, every invocation of the operation settles and every timer fires
RetrySpec == RetryInit /\ [][RetryNext]_vars /\ WF_vars(RetryNext)


(* --------------- executeScript with an inter-action delay -------------- *)

\* configurations with and without actions.waitBetweenActions
WaitConfigs ==
  [retryAttempts : 0..MaxEngineBudget, screenshotOnError : {FALSE}, verbose : {FALSE},
   level : {"info"}, waitBetweenActions : {0, 500}]

WaitInit ==
  /\ caller = "executeScript"
  /\ config \in WaitConfigs
  /\ script \in Scripts
  /\ rawError = {}
  /\ strategyArg = NoStrategy
  /\ recoveryActions = <<>>
  /\ InitState

WaitNext ==
  \/ InvokeOperation
  \/ WaitBetweenActions
  \/ OperationSucceeds
  \/ OperationFails
  \/ DelayElapses
  \/ ExecuteScript
  \/ InitializeBrowserFails
  \/ InitializeBrowser
  \/ StartStep
  \/ StepSucceeded
  \/ StepFailed
  \/ StepFault
  \/ LoopFault
  \/ Complete
  \/ Finally

WaitSpec == WaitInit /\ [][WaitNext]_vars


(* ------------------------------ properties ---------------------------- *)

NSteps == Len(script.steps)

\* executeWithSmartRetry has returned a failure / a success
RetryFailed    == retryResult.status = "failure"
RetrySucceeded == retryResult.status = "success"

\* the effective ceiling for failures of type k
EffectiveMax(k) == Min(DEFAULT_RETRY_STRATEGIES[k].maxAttempts, config.retryAttempts)

\* C1: while every invocation of the operation has reported a Result-failure of one
\* retryable type k and the budget is at least 1, the operation has been invoked at
\* most min(maxAttempts(k), retryAttempts) times; the executor goes on retrying below
\* that number and returns a failure after exactly that many invocations.
C1_ExhaustsAtEffectiveMax ==
  \A k \in ErrorTypes :
    (/\ config.retryAttempts >= 1
     /\ kindsSeen = {k}
     /\ ~threw
     /\ lastError.isRetryable
     /\ ~RetrySucceeded)
    => /\ opCalls <= EffectiveMax(k)
       /\ RetryFailed => opCalls = EffectiveMax(k)
       /\ (rpc \in {"invoke", "delay"}) => opCalls < EffectiveMax(k)
       /\ (opCalls = EffectiveMax(k) /\ rpc # "pending") => RetryFailed

C1_Witness ==
  /\ rpc = "done"
  /\ RetryFailed
  /\ kindsSeen = {"network_error"}
  /\ config.retryAttempts > 5
  /\ opCalls = 5

\* C2: a failure classified validation_error ends the call at once, whatever the
\* budget: the operation was invoked exactly once and a failure is returned.
C2_ValidationNeverRetried ==
  ("validation_error" \in kindsSeen /\ lastError.type = "validation_error")
    => /\ RetryFailed
       /\ rpc \notin {"invoke", "pending", "delay"}
       /\ kindsSeen = {"validation_error"} => opCalls = 1 /\ delays = 0

C2_Witness ==
  /\ rpc = "done"
  /\ kindsSeen = {"validation_error"}
  /\ config.retryAttempts >= 5
  /\ opCalls = 1
  /\ RetryFailed

\* C3: after a first retryable failure with a budget of at least 2 the executor does
\* not give up; every invocation after the first is preceded by exactly one backoff
\* delay; a success is returned with the operation's data, after as many invocations
\* as attempts (one for a first-attempt success, two for a success on the second);
\* and once the call has returned the operation is not invoked again.
C3_RetryThenSuccess ==
  /\ [](/\ (/\ opCalls = 1 /\ kindsSeen # {} /\ ~threw
            /\ lastError.isRetryable /\ config.retryAttempts >= 2) => ~RetryFailed
        /\ rpc = "pending" => delays = opCalls - 1
        /\ (rpc = "done" /\ RetrySucceeded)
             => /\ retryResult.data = OperationData
                /\ opCalls = attempt
                /\ delays = opCalls - 1
                /\ kindsSeen = {} => opCalls = 1
                /\ Cardinality(kindsSeen) = 1 => opCalls >= 2)
  /\ [][rpc = "done" => (opCalls' = opCalls \/ retryCalls' = retryCalls + 1)]_vars

C3_Witness ==
  /\ rpc = "done"
  /\ RetrySucceeded
  /\ opCalls = 2
  /\ delays = 1
  /\ kindsSeen = {"element_not_found"}

\* C4: once an invocation of the operation has thrown, the call has returned a
\* failure Result and the operation is never invoked again, also when earlier
\* invocations reported retryable failures and attempts remain.
C4_ThrowEndsTheCall ==
  /\ [](threw => rpc = "done" /\ RetryFailed /\ inflight = 0)
  /\ [][threw => opCalls' = opCalls]_vars

C4_Witness ==
  /\ threw
  /\ opCalls = 2
  /\ kindsSeen = {"network_error"}
  /\ lastError.isRetryable
  /\ config.retryAttempts >= 5

\* C5: at most one step action is in flight; a step's action is invoked only after
\* every earlier step has returned success; after a step has failed no action is in
\* flight, the run is on its way out and no later step has been started.
C5_StepsStrictlySequential ==
  /\ inflight <= 1
  /\ \A j \in 1..NSteps :
       stepStatus[j] # "pending" => \A m \in 1..(j - 1) : stepStatus[m] = "success"
  /\ (caller = "executeScript" /\ rpc = "pending")
       => stepStatus[i + 1] = "running" /\ stepsExecuted = i
  /\ \A j \in 1..NSteps :
       stepStatus[j] = "failed"
         => /\ inflight = 0
            /\ pc \in {"finally", "returned"}
            /\ \A m \in (j + 1)..NSteps : stepStatus[m] = "pending"

C5_Witness ==
  /\ NSteps = 3
  /\ stepStatus = <<"success", "failed", "pending">>
  /\ pc = "returned"

\* C6: when step K of N has failed permanently, executeScript returns a function-level
\* success whose ExecutionResult has success = false, stepsExecuted = K - 1,
\* totalSteps = N and as error the failure message of the retry executor for step K.
C6_FailedStepResult ==
  \A K \in 1..NSteps :
    stepStatus[K] = "failed"
      => /\ result.status = "success"
         /\ result.data.success = FALSE
         /\ result.data.stepsExecuted = K - 1
         /\ result.data.totalSteps = NSteps
         /\ RetryFailed
         /\ result.data.error = [kind |-> "retry", text |-> retryResult.error]
         /\ retryResult.error.attempted = opCalls
         /\ retryResult.error.type = lastError.type

C6_Witness ==
  /\ pc = "returned"
  /\ NSteps = 3
  /\ stepStatus[2] = "failed"
  /\ result.data.stepsExecuted = 1

\* C7: when each of the N steps has succeeded, executeScript returns a function-level
\* success whose ExecutionResult has success = true, stepsExecuted = totalSteps = N
\* and no error, and the retry executor was called exactly N times.
C7_AllStepsSucceed ==
  (/\ caller = "executeScript"
   /\ pc \in {"finally", "returned"}
   /\ NSteps >= 1
   /\ \A j \in 1..NSteps : stepStatus[j] = "success")
    => /\ result.status = "success"
       /\ result.data.success = TRUE
       /\ result.data.stepsExecuted = NSteps
       /\ result.data.totalSteps = NSteps
       /\ result.data.error = NoErrorField
       /\ retryCalls = NSteps

C7_Witness ==
  /\ pc = "returned"
  /\ NSteps = 3
  /\ \A j \in 1..NSteps : stepStatus[j] = "success"
  /\ result.data.success = TRUE

\* C8: when the validator reports a structural error, executeScript returns a
\* function-level failure, and neither initializeBrowser nor any step action is
\* invoked in that run.
C8_InvalidScriptNeverOpensBrowser ==
  (caller = "executeScript" /\ validationErrors(script) # {})
    => /\ initCalls = 0
       /\ ~browserController.acquired
       /\ retryCalls = 0
       /\ opCalls = 0
       /\ pc \in {"idle", "finally", "returned"}
       /\ pc # "idle" => result.status = "failure"

C8_Witness ==
  /\ pc = "returned"
  /\ caller = "executeScript"
  /\ script.name # ""
  /\ NSteps = 3
  /\ validationErrors(script) # {}

\* C9: when browser acquisition fails, or the session has no page, executeScript
\* returns a function-level failure (in the second case with the message 'Browser
\* page is not available') and no step action is invoked in that run.
C9_NoBrowserNoSteps ==
  (initCalls >= 1 /\ ~browserController.page)
    => /\ result.status = "failure"
       /\ result.error.kind = IF browserController.acquired
                                THEN "Browser page is not available"
                                ELSE "Failed to initialize browser"
       /\ retryCalls = 0
       /\ opCalls = 0
       /\ pc \in {"finally", "returned"}
       /\ \A j \in 1..NSteps : stepStatus[j] = "pending"

C9_Witness ==
  /\ pc = "returned"
  /\ initCalls = 1
  /\ browserController.acquired
  /\ ~browserController.page
  /\ result.status = "failure"

\* C10: closeBrowser is invoked only in the teardown, with no step action in flight
\* and none invoked afterwards; when executeScript has returned it was invoked
\* exactly once if a session was acquired and never otherwise.
C10_SessionClosedExactlyOnce ==
  /\ [](/\ closeCalls <= 1
        /\ closeCalls >= 1 => (browserController.acquired /\ pc = "returned" /\ inflight = 0)
        /\ pc = "returned"
             => closeCalls = IF browserController.acquired THEN 1 ELSE 0)
  /\ [][closeCalls >= 1 => opCalls' = opCalls]_vars

C10_Witness ==
  /\ pc = "returned"
  /\ closeCalls = 1
  /\ result.status = "success"
  /\ result.data.error = [kind |-> "thrown"]
  /\ stepsExecuted >= 1

\* C11: when executeScript has returned, on whatever path, logger.cleanup was called
\* exactly once in that run.
C11_CleanupExactlyOnce ==
  (caller = "executeScript" /\ pc = "returned") => cleanupCalls = 1

\* C12: once closeBrowser has run, the close of every non-null handle was invoked,
\* page first, then context, then browser, whichever closes failed.
C12_EveryHandleClosed ==
  closeCalls >= 1
    => closed = SelectSeq(Handles, LAMBDA h : browserController[h])

\* C13: once a session with a page has been acquired, executeScript returns a
\* function-level success on every path; a fault thrown while step K is executed
\* (inside the per-step try block) yields an ExecutionResult with success = false,
\* stepsExecuted = K - 1 and totalSteps = N, and a fault caught by the outer handler
\* yields one with success = false and totalSteps = N.
C13_FaultsNeverEscape ==
  /\ (browserController.page /\ pc \in {"finally", "returned"})
       => result.status = "success"
  /\ \A K \in 1..NSteps :
       stepStatus[K] = "fault"
         => /\ result.status = "success"
            /\ result.data.success = FALSE
            /\ result.data.stepsExecuted = K - 1
            /\ result.data.totalSteps = NSteps
            /\ result.data.error = [kind |-> "thrown"]
  /\ (result.status = "success" /\ result.data.error = [kind |-> "thrown"])
       => /\ result.data.success = FALSE
          /\ result.data.totalSteps = NSteps

C13_Witness ==
  /\ pc = "returned"
  /\ NSteps = 3
  /\ stepStatus = <<"success", "fault", "pending">>
  /\ result.status = "success"
  /\ result.data.stepsExecuted = 1
  /\ result.data.totalSteps = 3

\* C14: a step marked optional whose action has failed permanently does not end the
\* run: no result is returned at that step and the loop goes on.
C14_OptionalFailureDoesNotAbort ==
  \A K \in 1..NSteps :
    (script.steps[K].optional /\ stepStatus[K] = "failed")
      => /\ result = NoResult
         /\ pc \notin {"finally", "returned"}

\* C15: in a script for which validateScript reports no errors every step has the
\* fields its kind requires, and executeActionStep never reports a 'requires ...'
\* failure in its run.
C15_ValidatedStepsHaveRequiredFields ==
  (caller = "executeScript" /\ pc # "idle" /\ validationErrors(script) = {})
    => /\ lastError.type = "unknown_error" => lastError.message[2] # MsgRequires
       /\ \A n \in 1..NSteps : ~MissingRequiredField(script.steps[n])

\* the paths pushed by the screenshot steps before step K, in order
EarlierShots(K) ==
  SelectSeq([n \in 1..(K - 1) |-> <<"step", n, "screenshot.png">>],
            LAMBDA e : script.steps[e[2]].type = "screenshot")

\* C16 as stated: when step K has failed permanently and screenshotOnError is set, the
\* screenshot list of the result holds an error-screenshot entry for step K; when it
\* is not set no capture is attempted and the list holds only the paths of earlier
\* screenshot steps.
C16_ErrorScreenshotListed ==
  \A K \in 1..NSteps :
    stepStatus[K] = "failed"
      => IF config.screenshotOnError
           THEN \E n \in 1..Len(result.data.screenshots) :
                  result.data.screenshots[n] = <<"error", K, "error-step.png">>
           ELSE errorShot = "none" /\ result.data.screenshots = EarlierShots(K)

\* C16 amended: when step K has failed permanently, a capture is attempted exactly
\* when screenshotOnError is set; the screenshot list of the result is the paths of
\* the earlier screenshot steps, followed by an error-screenshot entry for step K
\* exactly when that capture succeeded.
C16_ErrorScreenshotWhenCaptured ==
  \A K \in 1..NSteps :
    stepStatus[K] = "failed"
      => /\ config.screenshotOnError <=> errorShot \in {"captured", "failed"}
         /\ result.data.screenshots =
              IF errorShot = "captured"
                THEN Append(EarlierShots(K), <<"error", K, "error-step.png">>)
                ELSE EarlierShots(K)

C16_Witness ==
  /\ pc = "returned"
  /\ NSteps = 3
  /\ stepStatus[2] = "failed"
  /\ script.steps[1].type = "screenshot"
  /\ config.screenshotOnError
  /\ errorShot = "failed"
  /\ result.data.screenshots = <<<<"step", 1, "screenshot.png">>>>

\* the levels of the entries of a sink, in order
Levels(entries) == [k \in 1..Len(entries) |-> entries[k].level]

\* the emissions so far whose level is at least the threshold, in order
Admitted(threshold) == SelectSeq(logger.calls, LAMBDA l : l >= threshold)

\* the entries handed to writeToFile by log (all but cleanup's own entry)
EmittedWrites == SelectSeq(logger.writes, LAMBDA e : e.category # "session")

\* C17: every buffered entry has a level at or above the threshold; at 'info' every
\* debug emission is dropped from the buffer, the console and the file, and every
\* info, warn and error emission is buffered, printed and handed to the file sink;
\* every line of the file comes from such an entry.
C17_InfoThresholdFilters ==
  /\ \A k \in 1..Len(logger.logBuffer) : logger.logBuffer[k].level >= logger.config.level
  /\ config.level = "info"
       => /\ Levels(logger.logBuffer) = Admitted(LogLevel.INFO)
          /\ Levels(logger.console) = Admitted(LogLevel.INFO)
          /\ Levels(EmittedWrites) = Admitted(LogLevel.INFO)
          /\ \A n \in 1..Len(logFile) :
               /\ logFile[n].levelName # "DEBUG"
               /\ \E k \in settled : logFile[n] = formattedEntry(logger.writes[k])

C17_Witness ==
  /\ caller = "createLogger"
  /\ config.level = "info"
  /\ logger.calls = <<LogLevel.DEBUG, LogLevel.INFO>>
  /\ Len(logger.logBuffer) = 1
  /\ Len(logger.console) = 1
  /\ Len(logFile) = 1

\* C18: the effective threshold is the configured level, for each of debug, info,
\* warn and error: exactly the emissions at or above the configured level are
\* buffered, printed and handed to the file sink, so a Logger configured at 'debug'
\* admits debug emissions.
C18_ThresholdIsConfiguredLevel ==
  caller = "createLogger"
    => /\ Levels(logger.logBuffer) = Admitted(levelMap[config.level])
       /\ Levels(logger.console) = Admitted(levelMap[config.level])
       /\ Levels(EmittedWrites) = Admitted(levelMap[config.level])

\* C19: the lines of the log file are in emission order, whatever the order in which
\* the writes in flight settle.
C19_FileKeepsEmissionOrder ==
  \A a, b \in 1..Len(logFile) :
    (a < b /\ logFile[a].category # "session" /\ logFile[b].category # "session")
      => logFile[a].timestamp < logFile[b].timestamp

\* C20: once executeScript has called cleanup, the Logger has handed exactly one
\* 'Session completed' entry to the file, it carries the session summary, and it is
\* the last entry of the session: nothing is emitted after it.
C20_SessionCompletedIsFinal ==
  (caller = "executeScript" /\ cleanupCalls >= 1)
    => LET w == logger.writes
       IN /\ Cardinality({k \in 1..Len(w) : w[k].category = "session"}) = 1
          /\ w[Len(w)].category = "session"
          /\ w[Len(w)].message = "Session completed"
          /\ w[Len(w)].data = Logger_getSessionSummary(logger)
          /\ w[Len(w)].id = Len(logger.calls) + 1

\* C21: after an append that leaves the log file larger than the maximum, the file
\* has been rotated: the session log path does not hold a file above the maximum,
\* and what it held is kept under a rotated name.
C21_OversizedFileIsRotated ==
  /\ fileSizeMB <= maxFileSize
  /\ \A n \in 1..Len(rotatedLogs) : Len(rotatedLogs[n]) > 0

\* the marker groups in the order the specification lists them, with their kinds
GroupOrder ==
  <<NetworkMarkers, TimeoutMarkers, NotFoundMarkers, NotVisibleMarkers,
    NotClickableMarkers, NavigationMarkers, ScreenshotMarkers, ValidationMarkers,
    BrowserMarkers>>

KindOrder ==
  <<"network_error", "timeout_error", "element_not_found", "element_not_visible",
    "element_not_clickable", "navigation_error", "screenshot_error",
    "validation_error", "browser_error">>

\* the groups one of whose keywords occurs in the text, whatever its case
Matching(error) ==
  {g \in DOMAIN GroupOrder :
     \E w \in error :
       (IF w \in DOMAIN Lowered THEN Lowered[w] ELSE {w}) \cap GroupOrder[g] # {}}

\* a classification has been returned for rawError
HasClassified == caller = "classifyError" /\ lastError # NoError

\* C22: classifyError is total and first-match-wins: for every text it returns one
\* kind, the kind of the first group (in the order network, timeout, not found, not
\* visible, not clickable, navigation, screenshot, validation, browser) one of whose
\* keywords occurs in the text case-insensitively, and unknown_error when none does.
C22_FirstMatchWins ==
  HasClassified =>
    /\ lastError.type \in ErrorTypes
    /\ IF Matching(rawError) = {}
         THEN lastError.type = "unknown_error"
         ELSE \E g \in Matching(rawError) :
                /\ \A h \in Matching(rawError) : g <= h
                /\ lastError.type = KindOrder[g]

C22_Witness ==
  /\ HasClassified
  /\ rawError = {"CONNECTION", "timeout"}
  /\ lastError.type = "network_error"

\* the text handed to classifyError holds "timeout", in whatever case
HoldsTimeout == "timeout" \in toLowerCase(rawError)

\* C23 (as stated): every text that holds "timeout" and no element-not-found marker
\* is classified timeout_error and retryable.
C23_TimeoutUnlessNotFound ==
  (HasClassified /\ HoldsTimeout /\ ~Includes(toLowerCase(rawError), NotFoundMarkers)) =>
    (lastError.type = "timeout_error" /\ lastError.isRetryable)

\* C23 (amended): every text that holds "timeout" and no network marker is classified
\* timeout_error and retryable, whether or not it holds an element-not-found marker.
C23_TimeoutUnlessNetwork ==
  (HasClassified /\ HoldsTimeout /\ ~Includes(toLowerCase(rawError), NetworkMarkers)) =>
    (lastError.type = "timeout_error" /\ lastError.isRetryable)

C23_Witness ==
  /\ HasClassified
  /\ rawError = {"Timeout", "not found"}
  /\ lastError.type = "timeout_error"
  /\ lastError.isRetryable

\* the strategy the specification gives each kind
StatedStrategy(kind) ==
  CASE kind = "network_error"         -> <<5, 2000, "exponential">>
    [] kind = "timeout_error"         -> <<3, 3000, "linear">>
    [] kind = "element_not_found"     -> <<4, 1500, "fixed">>
    [] kind = "element_not_visible"   -> <<3, 1000, "fixed">>
    [] kind = "element_not_clickable" -> <<3, 1000, "fixed">>
    [] kind = "navigation_error"      -> <<3, 2000, "exponential">>
    [] kind = "screenshot_error"      -> <<2, 500, "fixed">>
    [] kind = "validation_error"      -> <<1, 0, "fixed">>
    [] kind = "browser_error"         -> <<2, 3000, "fixed">>
    [] kind = "unknown_error"         -> <<2, 1000, "fixed">>

\* C24: every classification carries the default strategy of its kind (attempts, base
\* delay and backoff as the specification lists them), and it is non-retryable exactly
\* when its kind is validation_error.
C24_DefaultStrategyOfKind ==
  HasClassified =>
    /\ <<lastError.strategy.maxAttempts, lastError.strategy.delay,
         lastError.strategy.backoff>> = StatedStrategy(lastError.type)
    /\ lastError.isRetryable <=> lastError.type # "validation_error"

C24_Witness ==
  /\ HasClassified
  /\ rawError = {"Invalid", "browser"}
  /\ lastError.type = "validation_error"
  /\ ~lastError.isRetryable
  /\ lastError.strategy.maxAttempts = 1

\* C25: calculateRetryDelay(strategy, n) is strategy.delay under fixed backoff,
\* strategy.delay * n under linear backoff and strategy.delay * 2^(n-1) under
\* exponential backoff, for every attempt number n >= 1.
C25_DelayFormula ==
  (caller = "calculateRetryDelay" /\ attempt >= 1) =>
    pendingDelay = CASE strategyArg.backoff = "fixed"       -> strategyArg.delay
                     [] strategyArg.backoff = "linear"      -> strategyArg.delay * attempt
                     [] strategyArg.backoff = "exponential" ->
                          strategyArg.delay * 2 ^ (attempt - 1)

C25_Witness ==
  /\ caller = "calculateRetryDelay"
  /\ strategyArg = [maxAttempts |-> 3, delay |-> 1000, backoff |-> "exponential"]
  /\ attempt = 3
  /\ pendingDelay = 4000

\* C26: whenever executeWithSmartRetry has returned a failure, a failure was
\* classified in that call, the message names the kind of the last one, and its
\* 'attempted N times' has N = the number of times the operation was invoked in that
\* call; this on the exhausted, the non-retryable and the thrown-fault path alike.
C26_FailureMessageCountsInvocations ==
  RetryFailed =>
    /\ lastError # NoError
    /\ retryResult.error.type = lastError.type
    /\ retryResult.error.message = lastError.message
    /\ retryResult.error.attempted = opCalls

\* the call has failed on the exhausted path (after a retry), ...
C26_Exhausted ==
  /\ RetryFailed /\ ~threw /\ lastError.isRetryable
  /\ opCalls = 3 /\ retryResult.error.attempted = 3

\* ... on the non-retryable path, ...
C26_NonRetryable ==
  /\ RetryFailed /\ ~threw /\ ~lastError.isRetryable
  /\ opCalls = 1 /\ retryResult.error.attempted = 1

\* ... and on the thrown-fault path after a retry
C26_Witness ==
  /\ RetryFailed /\ threw
  /\ opCalls = 2 /\ retryResult.error.attempted = 2
  /\ kindsSeen # {}

\* the sum of the values of a function with a finite domain
RECURSIVE SumOf(_)
SumOf(f) ==
  IF DOMAIN f = {} THEN 0
  ELSE LET d == CHOOSE x \in DOMAIN f : TRUE
       IN f[d] + SumOf([x \in DOMAIN f \ {d} |-> f[x]])

\* the emitter calls made so far that passed the logger's threshold
AdmittedCalls == {k \in 1..Len(logger.calls) : logger.calls[k] >= logger.config.level}

\* C27: the buffer is append-only and keeps emission order. At every moment
\* getSessionSummary().totalLogs is the number of emissions admitted so far and the
\* sum of the per-severity counts, and the buffered entries are in the order of their
\* emission; no step removes or reorders an entry already buffered, so totalLogs
\* never decreases.
C27_BufferAppendOnly ==
  /\ [](LET summary == Logger_getSessionSummary(logger)
        IN /\ summary.totalLogs = Cardinality(AdmittedCalls)
           /\ summary.totalLogs = SumOf(summary.logsByLevel)
           /\ \A m, n \in 1..Len(logger.logBuffer) :
                m < n => logger.logBuffer[m].id < logger.logBuffer[n].id)
  /\ [][/\ Len(logger'.logBuffer) >= Len(logger.logBuffer)
        /\ SubSeq(logger'.logBuffer, 1, Len(logger.logBuffer)) = logger.logBuffer
        /\ Logger_getSessionSummary(logger').totalLogs
             >= Logger_getSessionSummary(logger).totalLogs]_vars

C27_Witness ==
  /\ caller = "createLogger"
  /\ Len(logger.logBuffer) = 2
  /\ logger.logBuffer[1].level = LogLevel.ERROR
  /\ logger.logBuffer[2].level = LogLevel.WARN
  /\ Logger_getSessionSummary(logger).totalLogs = 2

\* the delay the specification prescribes after the k-th attempt failed with a kind
StatedDelay(kind, k) ==
  LET base == StatedStrategy(kind)[2]
      backoff == StatedStrategy(kind)[3]
  IN CASE backoff = "fixed"       -> base
       [] backoff = "linear"      -> base * k
       [] backoff = "exponential" -> base * 2 ^ (k - 1)

\* C28: between the k-th failed invocation and the (k+1)-th the executor suspends
\* for the delay of the k-th failure's kind at attempt number k (the attempt that
\* just failed); it suspends exactly when that delay is above 0; and once the call
\* has returned a failure no suspension follows the last attempt.
C28_BackoffOfFailedAttempt ==
  /\ [](/\ rpc = "delay" =>
             /\ attempt = opCalls
             /\ pendingDelay = StatedDelay(lastError.type, opCalls)
             /\ pendingDelay > 0
        /\ RetryFailed => (delays = opCalls - 1 /\ pendingDelay = 0))
  /\ [][/\ (attempt >= 1 /\ attempt' = attempt + 1) =>
             IF StatedDelay(lastError'.type, attempt) > 0
               THEN rpc = "delay" /\ delays' = delays + 1
               ELSE rpc = "pending" /\ delays' = delays
        /\ rpc = "done" => (delays' = delays \/ retryCalls' = retryCalls + 1)]_vars

C28_Witness ==
  /\ rpc = "delay"
  /\ lastError.type = "network_error"
  /\ opCalls = 2
  /\ delays = 1
  /\ pendingDelay = 4000

\* C29: the recovery actions of a strategy run in list order, each at most once per
\* failure; they run only after a failure has been classified that a retry will
\* follow, and before the backoff delay of that failure begins; when one of them
\* throws the call does not return: it goes on to the backoff (or straight to the
\* next invocation) as it does when none throws.
C29_RecoveryBestEffort ==
  /\ [](/\ Len(recoveryRuns) <= Len(recoveryActions)
        /\ \A n \in 1..Len(recoveryRuns) : recoveryRuns[n].action = recoveryActions[n]
        /\ (rpc = "recovering" \/ recoveryRuns # <<>>) =>
             /\ rpc \in {"recovering", "delay", "invoke"}
             /\ retryResult = NoResult
             /\ lastError # NoError
             /\ lastError.isRetryable
             /\ opCalls < Min(lastError.strategy.maxAttempts, config.retryAttempts)
        /\ rpc = "recovering" => (pendingDelay = 0 /\ delays = opCalls - 1)
        /\ (rpc = "delay" /\ Len(recoveryActions) > 0) => recoveryRuns # <<>>)
  /\ [][(rpc = "recovering" /\ rpc' # "recovering") =>
          /\ retryResult' = NoResult
          /\ IF StatedDelay(lastError.type, opCalls) > 0
               THEN rpc' = "delay" /\ pendingDelay' = StatedDelay(lastError.type, opCalls)
               ELSE rpc' = "invoke"]_vars

C29_Witness ==
  /\ rpc = "delay"
  /\ recoveryActions = <<1, 2>>
  /\ recoveryRuns = <<[action |-> 1, threw |-> FALSE], [action |-> 2, threw |-> TRUE]>>
  /\ opCalls = 2
  /\ pendingDelay > 0

\* C30: when step K of N has failed and the capture of the error screenshot failed
\* too (a failure Result or a throw), executeScript still returns a function-level
\* success with success = false, stepsExecuted = K - 1, totalSteps = N and the
\* failed step's error, and the screenshot list holds no entry for the capture. The
\* capture is attempted at most once in a run, in the step that returns, and never
\* through the retry executor.
C30_FailedCaptureNotEscalated ==
  /\ [](/\ \A K \in 1..NSteps :
             (stepStatus[K] = "failed" /\ errorShot = "failed") =>
               /\ result.status = "success"
               /\ result.data.success = FALSE
               /\ result.data.stepsExecuted = K - 1
               /\ result.data.totalSteps = NSteps
               /\ result.data.error = [kind |-> "retry", text |-> retryResult.error]
               /\ result.data.screenshots = EarlierShots(K)
        /\ errorShot # "none" => pc \in {"finally", "returned"})
  /\ [][/\ errorShot' # errorShot =>
             /\ errorShot = "none"
             /\ pc' = "finally"
             /\ retryCalls' = retryCalls
             /\ opCalls' = opCalls
        /\ errorShot # "none" => (retryCalls' = retryCalls /\ opCalls' = opCalls)]_vars

C30_Witness ==
  /\ pc = "returned"
  /\ NSteps = 3
  /\ stepStatus[2] = "failed"
  /\ errorShot = "failed"
  /\ result.status = "success"
  /\ result.data.stepsExecuted = 1

\* the calls of writeToFile whose append failed: settled, and no line in the file
FailedWrites ==
  {k \in settled :
     \A n \in 1..Len(logFile) : logFile[n] # formattedEntry(logger.writes[k])}

\* the entries of a sequence of LogEntry
EntriesOf(entries) == {entries[n] : n \in 1..Len(entries)}

\* C31: a failing file write never reaches the emitter. The entry of every emission
\* whose append failed is still in the buffer and on the console; the step in which
\* a write settles leaves the logger as it was; and the buffer holds every admitted
\* emission, those made after a failed write included.
C31_WriteFailureNotPropagated ==
  /\ [](caller = "createLogger" =>
          /\ \A k \in FailedWrites :
               logger.writes[k].category # "session" =>
                 /\ logger.writes[k] \in EntriesOf(logger.logBuffer)
                 /\ logger.writes[k] \in EntriesOf(logger.console)
          /\ Len(logger.logBuffer) = Cardinality(AdmittedCalls)
          /\ Len(logger.console) = Cardinality(AdmittedCalls))
  /\ [][settled' # settled => logger' = logger]_vars

C31_Witness ==
  /\ caller = "createLogger"
  /\ FailedWrites = {1}
  /\ logFile = <<>>
  /\ Len(logger.logBuffer) = 2
  /\ PendingWrites = {2}

\* C32: with an inter-action delay d > 0 every invocation of a step's action, first
\* attempt or retry, is preceded by one suspension of d, which is made in addition to
\* the retry backoff; with d = 0 no such suspension is made.
C32_WaitBeforeEveryAttempt ==
  /\ [](/\ rpc = "waiting" => (config.waitBetweenActions > 0 /\ pc = "in_retry")
        /\ config.waitBetweenActions = 0 => waits = 0)
  /\ [][/\ opCalls' = opCalls + 1 =>
             IF config.waitBetweenActions > 0
               THEN rpc' = "waiting" /\ waits' = waits
               ELSE rpc' = "pending"
        /\ (rpc # "pending" /\ rpc' = "pending" /\ config.waitBetweenActions > 0) =>
             (rpc = "waiting" /\ waits' = waits + 1)
        /\ waits' # waits => delays' = delays]_vars

C32_Witness ==
  /\ config.waitBetweenActions = 500
  /\ i = 1
  /\ rpc = "pending"
  /\ opCalls = 2
  /\ delays = 1
  /\ waits = 3

\* C33: the retry executor keeps nothing from one call to the next. Every call
\* starts at attempt 1 with no invocation, delay or classified error behind it, and a
\* step whose attempts all fail with one retryable kind k is given
\* min(maxAttempts(k), retryAttempts) invocations, however many invocations the
\* earlier steps of the run have used.
C33_RetryExecutorStateless ==
  /\ []((pc = "in_retry" /\ rpc = "done" /\ RetryFailed /\ config.retryAttempts >= 1) =>
          \A k \in ErrorTypes :
            (kindsSeen = {k} /\ lastError.isRetryable) =>
              (opCalls = EffectiveMax(k) /\ attempt = opCalls))
  /\ [][retryCalls' = retryCalls + 1 =>
          /\ attempt' = 1
          /\ opCalls' = 0
          /\ delays' = 0
          /\ lastError' = NoError
          /\ retryResult' = NoResult
          /\ kindsSeen' = {}]_vars

\* the second step is at its first attempt after the first step took two
C33_Witness ==
  /\ config.waitBetweenActions = 500
  /\ i = 1
  /\ rpc = "pending"
  /\ attempt = 1
  /\ opCalls = 1
  /\ waits = 3

\* C34: once the ExecutionResult has been assembled its log list is not modified: the
\* teardown that follows adds no record to the list the caller receives.
C34_ResultLogsFrozen ==
  [][(result.status = "success" /\ pc \in {"finally", "returned"})
       => ResultLogs' = ResultLogs]_vars

Max(a, b) == IF a > b THEN a ELSE b

\* C35: whatever the operation does (success, Result-failures of changing kinds,
\* throws) and whatever the integer retry budget, 0 and negative budgets included,
\* one call of executeWithSmartRetry never invokes the operation more than
\* max(1, min(5, retryAttempts)) times, has invoked it at least once when it returns,
\* and does return.
C35_BoundedInvocationsThenReturn ==
  /\ [](/\ opCalls <= Max(1, Min(5, config.retryAttempts))
        /\ rpc = "done" => opCalls >= 1)
  /\ <>(rpc = "done")

C35_Witness ==
  /\ config.retryAttempts = -1
  /\ rpc = "done"
  /\ RetryFailed
  /\ opCalls = 1

\* five invocations, the kind of the failure changing on the way
C35_ChangingKinds ==
  /\ rpc = "done"
  /\ opCalls = 5
  /\ Cardinality(kindsSeen) >= 2

\* the steps whose action has returned success in the run
SucceededSteps == {K \in 1..NSteps : stepStatus[K] = "success"}

\* C36: every ExecutionResult returned for a script of N >= 1 steps has
\* 0 <= stepsExecuted <= totalSteps = N, success exactly when stepsExecuted = N, an
\* error exactly when success is false, and stepsExecuted equal to the number of
\* steps whose action returned success, on whichever path it was returned.
C36_ResultCountsSucceededSteps ==
  (result.status = "success" /\ NSteps >= 1) =>
    /\ 0 <= result.data.stepsExecuted
    /\ result.data.stepsExecuted <= result.data.totalSteps
    /\ result.data.totalSteps = NSteps
    /\ result.data.success <=> result.data.stepsExecuted = NSteps
    /\ result.data.error # NoErrorField <=> ~result.data.success
    /\ result.data.stepsExecuted = Cardinality(SucceededSteps)

\* the records of the log list that belong to a step
StepRecords == SelectSeq(logs, LAMBDA rec : rec[1] > 0)

\* C37: when the run has failed at step K, by a permanent failure or by a fault, the
\* step records of the log list are one 'success' record for each of the steps
\* 1..K-1, in order, then one 'error' record for step K, and nothing after.
C37_StepRecordsUpToFailure ==
  \A K \in 1..NSteps :
    stepStatus[K] \in {"failed", "fault"} =>
      StepRecords = [n \in 1..(K - 1) |-> <<n, script.steps[n].type, "success">>]
                      \o <<<<K, script.steps[K].type, "error">>>>

C37_Witness ==
  /\ pc = "returned"
  /\ NSteps = 3
  /\ stepStatus[3] = "fault"
  /\ Len(StepRecords) = 3
  /\ StepRecords[3][3] = "error"

\* C38: the engine reports the browser as closed (the 'Browser closed' entry of the
\* logger, the 'browser_cleanup' success record of the log list) only when
\* closeBrowser returned a success.
C38_ClosedReportedOnlyOnSuccess ==
  (\/ \E n \in 1..Len(logs) : logs[n] = <<0, "browser_cleanup", "success">>
   \/ \E n \in 1..Len(logger.logBuffer) : logger.logBuffer[n].message = "Browser closed")
    => closeResult = "success"

\* the lines held by the session log file and the rotated files together
RECURSIVE LinesKept(_, _)
LinesKept(file, rotated) ==
  IF rotated = <<>> THEN EntriesOf(file)
  ELSE EntriesOf(Head(rotated)) \cup LinesKept(file, Tail(rotated))

\* C39: rotation never loses log data. No step removes a line from the files: every
\* line that was in the session log file or in a rotated file is still in one of them
\* afterwards, and a write that settles leaves either the same lines (it failed) or
\* one line more (it was appended), also when the rotation check finds the file above
\* the maximum.
C39_RotationKeepsEveryLine ==
  [][/\ LinesKept(logFile, rotatedLogs) \subseteq LinesKept(logFile', rotatedLogs')
     /\ settled' # settled =>
          Cardinality(LinesKept(logFile', rotatedLogs'))
            \in {Cardinality(LinesKept(logFile, rotatedLogs)),
                 Cardinality(LinesKept(logFile, rotatedLogs)) + 1}]_vars

C39_Witness ==
  /\ caller = "createLogger"
  /\ fileSizeMB > maxFileSize
  /\ Len(logFile) = 2
  /\ settled = {1, 2}

====
